---- MODULE Spec2Model ----
(***************************************************************************)
(* Verification model of the taurus-challenge encryption service:          *)
(*   - package encdec: header, chunk-mode and whole-mode encryption        *)
(*     writers, decoding dispatcher, chunk-mode and whole-mode readers;     *)
(*   - package store: upload writers and the PushObject pipeline.           *)
(*                                                                         *)
(* Bytes are modelled individually.  A plaintext byte is identified by its  *)
(* position in the data offered to the writer (1, 2, 3, ...); 0 is the zero *)
(* byte of a freshly made buffer.  The codec only copies plaintext bytes,   *)
(* so position-labelled bytes expose every loss, duplication or reordering. *)
(* AES-GCM is modelled as an ideal AEAD: a sealed box opens only with the   *)
(* nonce and the additional data it was sealed with.                        *)
(***************************************************************************)
EXTENDS Integers, Sequences, FiniteSets, TLC

(***************************************************************************)
(* Bounds of the exploration.                                              *)
(***************************************************************************)
\* width in bits of the sequence counter (uint32 in the source, scaled down)
SeqBits == 2
\* largest number of plaintext bytes offered to one encryption writer
MaxLen == 6
\* largest chunk size of a header (0 selects whole mode)
MaxChunk == 3
\* largest caller buffer handed to Read
MaxBuf == 3
\* largest low word of the base IV
MaxIV == 1
\* largest number of Write calls the writer's destination fails
MaxFaults == 1
\* largest length of the source handed to PushObject, in MiB
MaxSrc == 11
\* largest number of times the object store becomes unreachable
MaxOutages == 1
\* largest number of Write, Close and Cancel calls made on one upload writer
MaxCalls == 4

(***************************************************************************)
(* Program constants (encdec/rewr_utils.go).                               *)
(***************************************************************************)
filenameHeaderSize == 50
headerSizeByte == 70
tagSizeByte == 16
seqNumSize == 4
\* the thresholds of PushObject (store/store.go), 5<<20 and 5<<30 bytes, in MiB
minChunkSize == 5
maxChunkSize == 5120
\* one past the largest value of the sequence counter
Uint32Mod == 2 ^ SeqBits
LAST_CHUNK_SEQ_NUM == Uint32Mod - 1

Min(a, b) == IF a < b THEN a ELSE b

\* bitwise exclusive or of two naturals
RECURSIVE Xor(_, _)
Xor(a, b) ==
  IF a = 0 THEN b
  ELSE IF b = 0 THEN a
  ELSE (((a % 2) + (b % 2)) % 2) + (2 * Xor(a \div 2, b \div 2))

\* a zeroed byte array of length k
Zeros(k) == [i \in 1..k |-> 0]

\* s[from:] of Go, from counted from 0
Drop(s, from) == SubSeq(s, from + 1, Len(s))

(***************************************************************************)
(* Header (encdec/rewr_utils.go).  The filename field is the 50-byte array, *)
(* the chunk size the 8-byte big-endian number, the IV its first 8 bytes    *)
(* (hi) and the big-endian value of its last 4 bytes (lo).                  *)
(***************************************************************************)
Filenames == {<<7, 8>>}

SetFilename(fn, filename) ==
  IF Len(filename) > filenameHeaderSize THEN fn
  ELSE [i \in 1..filenameHeaderSize |->
          IF i <= Len(filename) THEN filename[i] ELSE fn[i]]

NewHeader(chunkSize, filename, iv) ==
  [fn |-> SetFilename(Zeros(filenameHeaderSize), filename),
   cs |-> chunkSize,
   iv |-> iv]

\* bytes.TrimRightFunc(filename, r == 0)
RECURSIVE TrimRightZeros(_)
TrimRightZeros(s) ==
  IF Len(s) > 0 /\ s[Len(s)] = 0 THEN TrimRightZeros(SubSeq(s, 1, Len(s) - 1))
  ELSE s

Filename(h) == TrimRightZeros(h.fn)

\* additional data that leaves the chunk size out
aad_FilenameOnly(h) == [fn |-> h.fn, cs |-> 0]

aad(h) == [fn |-> h.fn, cs |-> h.cs]

\* a nonce made of the sequence number alone
deriveNonce_SeqOnly(iv, seq) == [hi |-> 0, lo |-> seq]

\* the nonce of a chunk: the IV with the sequence number xor-ed into its
\* last four bytes
deriveNonce(iv, seq) == [hi |-> iv.hi, lo |-> Xor(iv.lo, seq)]

(***************************************************************************)
(* Ideal AEAD.  Seal yields ciphertext and tag; Open succeeds only on the   *)
(* exact bytes of one sealed box, with its nonce and its additional data.   *)
(***************************************************************************)
Seal(nonce, plaintext, ad) == [nonce |-> nonce, ad |-> ad, pt |-> plaintext]

OpenOk(nonce, blob, ad) ==
  /\ blob.whole
  /\ blob.box.nonce = nonce
  /\ blob.box.ad = ad

(***************************************************************************)
(* What travels to the destination: the header, a chunk record (sequence    *)
(* number, ciphertext, tag) or the single sealed block of whole mode.       *)
(***************************************************************************)
HdrItem(h) == [t |-> "hdr", h |-> h]
RecItem(seq, box) == [t |-> "rec", seq |-> seq, box |-> box]
WholeItem(box) == [t |-> "whole", box |-> box]

ItemLen(it) ==
  IF it.t = "hdr" THEN headerSizeByte
  ELSE IF it.t = "rec" THEN seqNumSize + Len(it.box.pt) + tagSizeByte
  ELSE Len(it.box.pt) + tagSizeByte

(***************************************************************************)
(* encChunkWriter (encdec/writer.go).                                       *)
(***************************************************************************)
newEncChunkWriter(h) ==
  [buf |-> Zeros(h.cs), isClosed |-> FALSE, currSeqNum |-> 0,
   header |-> h, offset |-> 0, firstWrite |-> TRUE]

\* sealBuf with the final chunk tagged by the counter instead of the sentinel
sealBuf_CounterOnly(h, w, isFinal) ==
  LET currentSeqNum == w.currSeqNum
      buf1 == IF isFinal THEN SubSeq(w.buf, 1, w.offset) ELSE w.buf
      currentIV == deriveNonce(h.iv, currentSeqNum)
      box == Seal(currentIV, buf1, [fn |-> h.fn, cs |-> h.cs])
      toPush == <<RecItem(currentSeqNum, box)>>
  IN [w |-> [w EXCEPT !.buf = buf1, !.firstWrite = FALSE],
      toPush |-> IF w.firstWrite THEN <<HdrItem(h)>> \o toPush ELSE toPush,
      seal |-> [nonce |-> currentIV, seq |-> currentSeqNum,
                final |-> isFinal, pt |-> buf1]]

\* sealBuf that never puts the header in front
sealBuf_NoHeader(h, w, isFinal) ==
  LET currentSeqNum == IF isFinal THEN LAST_CHUNK_SEQ_NUM ELSE w.currSeqNum
      buf1 == IF isFinal THEN SubSeq(w.buf, 1, w.offset) ELSE w.buf
      currentIV == deriveNonce(h.iv, currentSeqNum)
      box == Seal(currentIV, buf1, [fn |-> h.fn, cs |-> h.cs])
  IN [w |-> [w EXCEPT !.buf = buf1, !.firstWrite = FALSE],
      toPush |-> <<RecItem(currentSeqNum, box)>>,
      seal |-> [nonce |-> currentIV, seq |-> currentSeqNum,
                final |-> isFinal, pt |-> buf1]]

\* sealBuf deriving the nonce inside the header's own IV bytes
sealBuf_StoredIV(h, w, isFinal) ==
  LET currentSeqNum == IF isFinal THEN LAST_CHUNK_SEQ_NUM ELSE w.currSeqNum
      buf1 == IF isFinal THEN SubSeq(w.buf, 1, w.offset) ELSE w.buf
      currentIV == deriveNonce(w.header.iv, currentSeqNum)
      header1 == [w.header EXCEPT !.iv = currentIV]
      box == Seal(currentIV, buf1, aad(header1))
      toPush == <<RecItem(currentSeqNum, box)>>
  IN [w |-> [w EXCEPT !.buf = buf1, !.firstWrite = FALSE,
                      !.header = header1],
      toPush |-> IF w.firstWrite THEN <<HdrItem(header1)>> \o toPush
                 ELSE toPush,
      seal |-> [nonce |-> currentIV, seq |-> currentSeqNum,
                final |-> isFinal, pt |-> buf1]]

\* sealBuf: the writer after the call, the bytes to push and the seal made;
\* header.IV() has a value receiver, so currentIV is a slice of a copy of
\* the writer's header
sealBuf(h, w, isFinal) ==
  LET currentSeqNum == IF isFinal THEN LAST_CHUNK_SEQ_NUM ELSE w.currSeqNum
      buf1 == IF isFinal THEN SubSeq(w.buf, 1, w.offset) ELSE w.buf
      currentIV == deriveNonce(w.header.iv, currentSeqNum)
      box == Seal(currentIV, buf1, aad(w.header))
      toPush == <<RecItem(currentSeqNum, box)>>
  IN [w |-> [w EXCEPT !.buf = buf1, !.firstWrite = FALSE],
      toPush |-> IF w.firstWrite THEN <<HdrItem(w.header)>> \o toPush
                 ELSE toPush,
      seal |-> [nonce |-> currentIV, seq |-> currentSeqNum,
                final |-> isFinal, pt |-> buf1]]

\* copy(dst[off:], src[from:]): the array after the copy and the count
CopyInto(dst, off, src, from) ==
  LET c == Min(Len(dst) - off, Len(src) - from)
  IN [buf |-> [i \in 1..Len(dst) |->
                 IF i > off /\ i <= off + c THEN src[from + i - off] ELSE dst[i]],
      c |-> c]

\* the loop of Write sealing a chunk as soon as the buffer is full
RECURSIVE ecwWriteLoop_Eager(_, _, _, _)
ecwWriteLoop_Eager(h, st, p, failAt) ==
  IF st.n < Len(p) /\ Len(p) - st.n >= h.cs - st.w.offset
  THEN LET cp == CopyInto(st.w.buf, st.w.offset, p, st.n)
           n1 == st.n + cp.c
           sb == sealBuf(h, [st.w EXCEPT !.buf = cp.buf, !.offset = 0], FALSE)
           seals1 == Append(st.seals, sb.seal)
       IN IF Len(st.pushed) + Len(st.lost) + 1 = failAt
          THEN [w |-> sb.w, n |-> 0, err |-> "ErrDest",
                pushed |-> st.pushed, lost |-> Append(st.lost, sb.toPush),
                seals |-> seals1]
          ELSE LET w2 == [sb.w EXCEPT !.currSeqNum = (@ + 1) % Uint32Mod]
                   st2 == [w |-> w2, n |-> n1, err |-> "nil",
                           pushed |-> Append(st.pushed, sb.toPush),
                           lost |-> st.lost, seals |-> seals1]
               IN IF w2.currSeqNum = LAST_CHUNK_SEQ_NUM
                  THEN [st2 EXCEPT !.err = "ErrTooMuchChunk"]
                  ELSE ecwWriteLoop_Eager(h, st2, p, failAt)
  ELSE LET cp == CopyInto(st.w.buf, st.w.offset, p, st.n)
           n1 == st.n + cp.c
       IN [st EXCEPT !.w = [st.w EXCEPT !.buf = cp.buf, !.offset = @ + cp.c],
                     !.n = n1,
                     !.err = IF n1 < Len(p) THEN "ErrShortWrite" ELSE "nil"]

\* The loop and the tail of encChunkWriter.Write.  st carries the writer, n,
\* the destination writes made and the seals made by this call; the
\* destination fails on its failAt-th write of the call (0: never).
RECURSIVE ecwWriteLoop(_, _, _, _)
ecwWriteLoop(h, st, p, failAt) ==
  IF st.n < Len(p) /\ Len(p) - st.n > h.cs - st.w.offset
  THEN LET cp == CopyInto(st.w.buf, st.w.offset, p, st.n)
           n1 == st.n + cp.c
           sb == sealBuf(h, [st.w EXCEPT !.buf = cp.buf, !.offset = 0], FALSE)
           seals1 == Append(st.seals, sb.seal)
       IN IF Len(st.pushed) + Len(st.lost) + 1 = failAt
          THEN [w |-> sb.w, n |-> 0, err |-> "ErrDest",
                pushed |-> st.pushed, lost |-> Append(st.lost, sb.toPush),
                seals |-> seals1]
          ELSE LET w2 == [sb.w EXCEPT !.currSeqNum = (@ + 1) % Uint32Mod]
                   st2 == [w |-> w2, n |-> n1, err |-> "nil",
                           pushed |-> Append(st.pushed, sb.toPush),
                           lost |-> st.lost, seals |-> seals1]
               IN IF w2.currSeqNum = LAST_CHUNK_SEQ_NUM
                  THEN [st2 EXCEPT !.err = "ErrTooMuchChunk"]
                  ELSE ecwWriteLoop(h, st2, p, failAt)
  ELSE LET cp == CopyInto(st.w.buf, st.w.offset, p, st.n)
           n1 == st.n + cp.c
       IN [st EXCEPT !.w = [st.w EXCEPT !.buf = cp.buf, !.offset = @ + cp.c],
                     !.n = n1,
                     !.err = IF n1 < Len(p) THEN "ErrShortWrite" ELSE "nil"]

\* Write without the check of isClosed
ecwWrite_NoClosedCheck(h, w, p, failAt) ==
  ecwWriteLoop(h, [w |-> w, n |-> 0, err |-> "nil", pushed |-> <<>>,
                   lost |-> <<>>, seals |-> <<>>], p, failAt)

ecwWrite(h, w, p, failAt) ==
  IF w.isClosed
  THEN [w |-> w, n |-> 0, err |-> "ErrWriterClosed",
        pushed |-> <<>>, lost |-> <<>>, seals |-> <<>>]
  ELSE ecwWriteLoop(h, [w |-> w, n |-> 0, err |-> "nil", pushed |-> <<>>,
                        lost |-> <<>>, seals |-> <<>>], p, failAt)

\* encChunkWriter.Close; destCloser tells whether the destination is an
\* io.WriteCloser, whose Close result is then the result of Close
ecwClose(h, w, failAt, destCloser) ==
  LET w1 == [w EXCEPT !.isClosed = TRUE]
  IN IF w.offset = 0
     THEN [w |-> w1, err |-> "ErrNoLastChunk", pushed |-> <<>>, lost |-> <<>>,
           seals |-> <<>>, closes |-> 0]
     ELSE LET sb == sealBuf(h, w1, TRUE)
              failed == (failAt = 1)
          IN [w |-> sb.w,
              err |-> IF destCloser THEN "nil"
                      ELSE IF failed THEN "ErrDest" ELSE "nil",
              pushed |-> IF failed THEN <<>> ELSE <<sb.toPush>>,
              lost |-> IF failed THEN <<sb.toPush>> ELSE <<>>,
              seals |-> <<sb.seal>>,
              closes |-> IF destCloser THEN 1 ELSE 0]

\* encChunkWriter.ReadFrom over a source that holds data: reads of at most
\* one chunk, each handed to Write, up to the first Write that fails
RECURSIVE ecwReadFromLoop(_, _, _)
ecwReadFromLoop(h, st, data) ==
  IF st.n = Len(data) THEN st
  ELSE LET nn == Min(h.cs, Len(data) - st.n)
           r == ecwWrite(h, st.w, SubSeq(data, st.n + 1, st.n + nn), 0)
           st1 == [w |-> r.w, n |-> st.n + nn, err |-> r.err,
                   pushed |-> st.pushed \o r.pushed, lost |-> <<>>,
                   seals |-> st.seals \o r.seals]
       IN IF r.err # "nil" THEN st1 ELSE ecwReadFromLoop(h, st1, data)

ecwReadFrom(h, w, data) ==
  IF w.isClosed
  THEN [w |-> w, n |-> 0, err |-> "ErrWriterClosed",
        pushed |-> <<>>, lost |-> <<>>, seals |-> <<>>]
  ELSE ecwReadFromLoop(h, [w |-> w, n |-> 0, err |-> "nil", pushed |-> <<>>,
                           lost |-> <<>>, seals |-> <<>>], data)

(***************************************************************************)
(* encWholeWriter (encdec/writer.go).  The writer record has the shape of   *)
(* the chunk writer's; only buf and isClosed are fields of encWholeWriter.  *)
(***************************************************************************)
newEncWholeWriter(h) ==
  [buf |-> <<>>, isClosed |-> FALSE, currSeqNum |-> 0,
   header |-> h, offset |-> 0, firstWrite |-> TRUE]

ewwWrite(h, w, p, failAt) ==
  IF w.isClosed
  THEN [w |-> w, n |-> 0, err |-> "ErrWriterClosed",
        pushed |-> <<>>, lost |-> <<>>, seals |-> <<>>]
  ELSE [w |-> [w EXCEPT !.buf = @ \o p], n |-> Len(p), err |-> "nil",
        pushed |-> <<>>, lost |-> <<>>, seals |-> <<>>]

\* encWholeWriter.Close: io.Copy hands the header and then the sealed block
\* to the destination and stops at the first failed write
ewwClose(h, w, failAt, destCloser) ==
  LET toPush == Seal(w.header.iv, w.buf, aad(w.header))
      writes == << <<HdrItem(w.header)>>, <<WholeItem(toPush)>> >>
      nOk == IF failAt = 0 THEN 2 ELSE Min(failAt, 2) - 1
  IN [w |-> [w EXCEPT !.isClosed = TRUE],
      err |-> IF destCloser THEN "nil"
              ELSE IF nOk < 2 THEN "ErrDest" ELSE "nil",
      pushed |-> SubSeq(writes, 1, nOk),
      lost |-> IF nOk < 2 THEN <<writes[nOk + 1]>> ELSE <<>>,
      seals |-> <<[nonce |-> w.header.iv, seq |-> 0, final |-> TRUE,
                   pt |-> w.buf]>>,
      closes |-> IF destCloser THEN 1 ELSE 0]

\* encWholeWriter.ReadFrom: io.ReadAll of the source becomes the buffer
ewwReadFrom(h, w, data) ==
  IF w.isClosed
  THEN [w |-> w, n |-> 0, err |-> "ErrWriterClosed",
        pushed |-> <<>>, lost |-> <<>>, seals |-> <<>>]
  ELSE [w |-> [w EXCEPT !.buf = data], n |-> Len(data), err |-> "nil",
        pushed |-> <<>>, lost |-> <<>>, seals |-> <<>>]

\* NewEncWriter and the dynamic dispatch on the writer it returned
NewEncWriter(h) ==
  IF h.cs > 0 THEN newEncChunkWriter(h) ELSE newEncWholeWriter(h)

ewWrite(h, w, p, failAt) ==
  IF h.cs > 0 THEN ecwWrite(h, w, p, failAt) ELSE ewwWrite(h, w, p, failAt)

ewReadFrom(h, w, data) ==
  IF h.cs > 0 THEN ecwReadFrom(h, w, data) ELSE ewwReadFrom(h, w, data)

ewClose(h, w, failAt, destCloser) ==
  IF h.cs > 0 THEN ecwClose(h, w, failAt, destCloser)
  ELSE ewwClose(h, w, failAt, destCloser)

(***************************************************************************)
(* The byte stream a reader consumes: the header, when the stream starts    *)
(* with one, and the items that follow it.  Positions are byte offsets in   *)
(* the part after the header.                                               *)
(***************************************************************************)
RECURSIVE Flatten(_)
Flatten(writes) ==
  IF writes = <<>> THEN <<>> ELSE Head(writes) \o Flatten(Tail(writes))

StreamOf(items) ==
  IF items # <<>> /\ items[1].t = "hdr"
  THEN [hasHdr |-> TRUE, h |-> items[1].h, body |-> Tail(items)]
  ELSE [hasHdr |-> FALSE, h |-> NewHeader(0, <<>>, [hi |-> 0, lo |-> 0]),
        body |-> items]

RECURSIVE SumLen(_, _)
SumLen(body, k) == IF k = 0 THEN 0 ELSE ItemLen(body[k]) + SumLen(body, k - 1)

TotalLen(body) == SumLen(body, Len(body))

\* index of the item that starts at byte offset pos, 0 when there is none
ItemAt(body, pos) ==
  IF \E i \in 1..Len(body) : SumLen(body, i - 1) = pos
  THEN CHOOSE i \in 1..Len(body) : SumLen(body, i - 1) = pos
  ELSE 0

(***************************************************************************)
(* decChunkReader.Read (unnamed/part_000, lines 226-300).                   *)
(* st carries the reader d, the caller's buffer p and the count n; g is the *)
(* value of four bytes that are not a record's sequence-number field.       *)
(***************************************************************************)
\* io.ReadFull(dcr.src, cipherBuf) followed by the parse of its result
readRecord(body, d, g) ==
  LET want == d.header.cs + seqNumSize + tagSizeByte
      nn == Min(want, TotalLen(body) - d.pos)
      i == ItemAt(body, d.pos)
      atRec == i > 0 /\ body[i].t = "rec"
  IN [nn |-> nn,
      err |-> IF nn = 0 THEN "EOF"
              ELSE IF nn < want THEN "ErrUnexpectedEOF" ELSE "nil",
      seq |-> IF atRec THEN body[i].seq ELSE g,
      blob |-> [whole |-> atRec /\ nn = ItemLen(body[i]),
                box |-> IF atRec THEN body[i].box ELSE Seal(0, <<>>, 0)]]

\* p with p[n:n+k] replaced by the bytes of src (zeros when src is shorter)
Place(p, n, k, src) ==
  [j \in 1..Len(p) |->
     IF j > n /\ j <= n + k
     THEN (IF j - n <= Len(src) THEN src[j - n] ELSE 0)
     ELSE p[j]]

RECURSIVE dcrReadLoop(_, _, _)
dcrReadLoop(body, st, g) ==
  LET d == st.d
      p == st.p
      n == st.n
  IN
  IF ~(n < Len(p) /\ ~d.isFinished)
  THEN [st EXCEPT !.err = IF d.isFinished THEN "EOF" ELSE "nil"]
  ELSE IF Len(d.buf) > 0
  THEN LET c == Min(Len(p), Len(d.buf))
           n1 == n + c
       IN IF n1 > Len(d.buf)
          THEN [st EXCEPT !.p = Place(p, 0, c, d.buf), !.n = n1, !.err = "panic"]
          ELSE dcrReadLoop(body,
                 [st EXCEPT !.p = Place(p, 0, c, d.buf), !.n = n1,
                            !.d = [d EXCEPT !.buf = Drop(d.buf, n1)]], g)
  ELSE
    LET rr == readRecord(body, d, g)
        nn == rr.nn
        d1 == [d EXCEPT !.pos = @ + nn]
    IN
    IF rr.err = "EOF"
    THEN [st EXCEPT !.d = [d1 EXCEPT !.isFinished = TRUE], !.err = "EOF"]
    ELSE IF rr.err = "ErrUnexpectedEOF" /\ rr.seq # LAST_CHUNK_SEQ_NUM
    THEN [st EXCEPT !.d = [d1 EXCEPT !.isFinished = TRUE],
                    !.err = "ErrUnexpectedEOF"]
    ELSE IF rr.seq # d.currSeqNum /\ rr.seq # LAST_CHUNK_SEQ_NUM
    THEN [st EXCEPT !.d = d1, !.n = 0, !.err = "ErrInvalidSeqNum"]
    ELSE
      LET d2 == [d1 EXCEPT !.isFinished = @ \/ rr.seq # d.currSeqNum,
                           !.currSeqNum = (@ + 1) % Uint32Mod]
          currentIV == deriveNonce(d.header.iv, rr.seq)
          ok == OpenOk(currentIV, rr.blob, aad(d.header))
          ptLen == nn - seqNumSize - tagSizeByte
      IN
      IF nn < seqNumSize
      THEN [st EXCEPT !.d = d2, !.err = "panic"]
      ELSE IF Len(p) - n >= ptLen
      THEN IF ok
           THEN dcrReadLoop(body,
                  [st EXCEPT !.d = d2, !.n = n + ptLen,
                             !.p = Place(p, n, ptLen, rr.blob.box.pt)], g)
           ELSE [st EXCEPT !.d = d2, !.n = n + ptLen,
                           !.p = Place(p, n, ptLen, <<>>), !.err = "ErrAuth"]
      ELSE IF ok /\ ptLen >= tagSizeByte
      THEN dcrReadLoop(body,
             [st EXCEPT !.d = [d2 EXCEPT !.buf =
                                 SubSeq(rr.blob.box.pt, 1, ptLen - tagSizeByte)]], g)
      ELSE [st EXCEPT !.d = d2, !.err = "panic"]

dcrRead(body, d, p, g) ==
  IF d.isFinished THEN [d |-> d, p |-> p, n |-> 0, err |-> "EOF"]
  ELSE dcrReadLoop(body, [d |-> d, p |-> p, n |-> 0, err |-> "nil"], g)

(***************************************************************************)
(* decWholeReader.Read (unnamed/part_000, lines 346-366).                   *)
(***************************************************************************)
\* the bytes io.ReadAll returns from position pos, as one blob
readAll(body, pos) ==
  LET i == ItemAt(body, pos)
      one == i > 0 /\ i = Len(body) /\ body[i].t = "whole"
  IN [len |-> TotalLen(body) - pos,
      blob |-> [whole |-> one,
                box |-> IF one THEN body[i].box ELSE Seal(0, <<>>, 0)]]

dwrRead(body, d, p) ==
  IF ~d.decrypted
  THEN LET ra == readAll(body, d.pos)
           d1 == [d EXCEPT !.pos = TotalLen(body)]
       IN IF ~OpenOk(d.header.iv, ra.blob, aad(d.header))
          THEN [d |-> [d1 EXCEPT !.buf = <<>>], p |-> p, n |-> 0, err |-> "ErrAuth"]
          ELSE LET buf1 == ra.blob.box.pt
                   c == Min(Len(p), Len(buf1))
               IN [d |-> [d1 EXCEPT !.buf = buf1],
                   p |-> Place(p, 0, c, buf1), n |-> c, err |-> "nil"]
  ELSE LET c == Min(Len(p), Len(d.buf))
       IN [d |-> d, p |-> Place(p, 0, c, d.buf), n |-> c, err |-> "nil"]

(***************************************************************************)
(* decModeReader (unnamed/part_000, lines 112-195).                         *)
(***************************************************************************)
NewDecReader ==
  [firstRead |-> TRUE, mode |-> "none",
   header |-> NewHeader(0, <<>>, [hi |-> 0, lo |-> 0]),
   buf |-> <<>>, currSeqNum |-> 0, isFinished |-> FALSE,
   decrypted |-> FALSE, pos |-> 0, hdrRead |-> 0]

\* readHeader that reads a header whenever it is called
readHeader_Always(strm, d) ==
  IF ~strm.hasHdr THEN [d |-> d, err |-> "EOF"]
  ELSE [d |-> [d EXCEPT !.firstRead = FALSE,
                        !.header = strm.h,
                        !.mode = IF strm.h.cs > 0 THEN "chunk" ELSE "whole",
                        !.hdrRead = @ + headerSizeByte],
        err |-> "nil"]

\* readHeader: io.ReadFull of the 70 header bytes, then the choice of the
\* inner reader; hdrRead counts the header bytes taken from the source
readHeader(strm, d) ==
  IF ~d.firstRead THEN [d |-> d, err |-> "nil"]
  ELSE IF ~strm.hasHdr THEN [d |-> d, err |-> "EOF"]
  ELSE [d |-> [d EXCEPT !.firstRead = FALSE,
                        !.header = strm.h,
                        !.mode = IF strm.h.cs > 0 THEN "chunk" ELSE "whole",
                        !.hdrRead = @ + headerSizeByte],
        err |-> "nil"]

dmrRead(strm, d, p, g) ==
  LET rh == readHeader(strm, d)
  IN IF rh.err # "nil" THEN [d |-> rh.d, p |-> p, n |-> 0, err |-> rh.err]
     ELSE IF rh.d.mode = "chunk" THEN dcrRead(strm.body, rh.d, p, g)
     ELSE dwrRead(strm.body, rh.d, p)

\* decChunkReader.WriteTo: Reads into a buffer of one chunk, each result
\* written to w, until Read returns (0, io.EOF) or another error
RECURSIVE dcrWriteTo(_, _, _, _)
\* the loop of WriteTo after a Read that returned r
dcrWriteToRead(body, r, written, g) ==
  IF r.err \notin {"nil", "EOF"}
  THEN [d |-> r.d, written |-> written, err |-> r.err]
  ELSE IF r.err = "EOF" /\ r.n = 0
  THEN [d |-> r.d, written |-> written, err |-> "nil"]
  ELSE dcrWriteTo(body, r.d, written \o SubSeq(r.p, 1, r.n), g)

dcrWriteTo(body, d, written, g) ==
  dcrWriteToRead(body, dcrRead(body, d, Zeros(d.header.cs), g), written, g)

\* io.ReadAll(dwr): Reads into spare room of the buffer until one fails
RECURSIVE dwrReadAll(_, _, _)
dwrReadAllRead(body, r, data) ==
  IF r.err = "EOF" THEN [d |-> r.d, data |-> data, err |-> "nil"]
  ELSE IF r.err # "nil" THEN [d |-> r.d, data |-> data, err |-> r.err]
  ELSE dwrReadAll(body, r.d, data \o SubSeq(r.p, 1, r.n))

dwrReadAll(body, d, data) ==
  dwrReadAllRead(body, dwrRead(body, d, Zeros(TotalLen(body) + 1)), data)

\* what WriteTo returns once io.ReadAll returned ra
dwrWriteToAll(ra) ==
  [d |-> ra.d,
   written |-> IF ra.err = "nil" THEN ra.data ELSE <<>>,
   err |-> ra.err]

\* decWholeReader.WriteTo: what io.ReadAll returned is written to w, unless
\* it returned an error
dwrWriteTo(body, d) == dwrWriteToAll(dwrReadAll(body, d, <<>>))

\* decModeReader.WriteTo
dmrWriteTo(strm, d, g) ==
  LET rh == readHeader(strm, d)
  IN IF rh.err # "nil" THEN [d |-> rh.d, written |-> <<>>, err |-> rh.err]
     ELSE IF rh.d.mode = "chunk" THEN dcrWriteTo(strm.body, rh.d, <<>>, g)
     ELSE dwrWriteTo(strm.body, rh.d)

\* Filename without the test of firstRead
dmrFilename_NoCheck(d) == [name |-> Filename(d.header), err |-> "nil"]

dmrFilename(d) ==
  IF d.firstRead THEN [name |-> <<>>, err |-> "ErrNoFirstRead"]
  ELSE [name |-> Filename(d.header), err |-> "nil"]

(***************************************************************************)
(* The object store, as the upload writers use it; its answers are those of *)
(* minioCoreMock and minioClientMock (store/writer_test.go).  st holds the  *)
(* multipart uploads started, the parts put, the uploads completed and      *)
(* aborted, the objects put, the number of calls that failed, and every     *)
(* call made, oldest first.  A call made while the store is unreachable     *)
(* or with a context cancelled before the call (up = FALSE) fails.          *)
(***************************************************************************)
NoInfo == [completed |-> FALSE, parts |-> <<>>]

NoStore ==
  [multipart |-> 0, uploaded |-> <<>>, completed |-> <<>>, aborted |-> <<>>,
   put |-> <<>>, failed |-> 0, calls |-> <<>>]

\* the multipart upload with this identifier exists and has the status
\* inProgress
inProgress(st, uploadID) ==
  /\ uploadID = "id"
  /\ st.multipart > 0
  /\ st.completed = <<>>
  /\ st.aborted = <<>>

\* the store after a call: the call is recorded, a failed one is counted
Called(st, op, uploadID, arg, ok) ==
  [st EXCEPT !.calls = Append(@, [op |-> op, id |-> uploadID, arg |-> arg,
                                  ok |-> ok]),
             !.failed = IF ok THEN @ ELSE @ + 1]

NewMultipartUpload(st, up) ==
  [st |-> Called(IF up THEN [st EXCEPT !.multipart = @ + 1] ELSE st,
                 "NewMultipartUpload", "", <<>>, up),
   ok |-> up]

\* the part is taken when the upload is in progress and the part number is
\* the next one
PutObjectPart(st, uploadID, partID, p, up) ==
  LET ok == /\ up
            /\ inProgress(st, uploadID)
            /\ partID = Len(st.uploaded) + 1
  IN [st |-> Called(IF ok THEN [st EXCEPT !.uploaded =
                                  Append(@, [part |-> partID, data |-> p])]
                    ELSE st,
                    "PutObjectPart", uploadID, <<partID>>, ok),
      ok |-> ok]

\* the upload is completed when it is in progress and the parts given are
\* the parts put, in order
CompleteMultipartUpload(st, uploadID, parts, up) ==
  LET ok == /\ up
            /\ inProgress(st, uploadID)
            /\ parts = [i \in 1..Len(st.uploaded) |-> st.uploaded[i].part]
  IN [st |-> Called(IF ok THEN [st EXCEPT !.completed = Append(@, parts)]
                    ELSE st,
                    "CompleteMultipartUpload", uploadID, parts, ok),
      ok |-> ok]

AbortMultipartUpload(st, uploadID, up) ==
  LET ok == up /\ inProgress(st, uploadID)
  IN [st |-> Called(IF ok THEN [st EXCEPT !.aborted = Append(@, uploadID)]
                    ELSE st,
                    "AbortMultipartUpload", uploadID, <<>>, ok),
      ok |-> ok]

PutObject(st, data, up) ==
  [st |-> Called(IF up THEN [st EXCEPT !.put = Append(@, data)] ELSE st,
                 "PutObject", "", <<>>, up),
   ok |-> up]

\* the error of a failed call made with the writer's context
ctxErr(done) == IF done THEN "ErrCanceled" ELSE "ErrStore"

(***************************************************************************)
(* Upload writers (store/store.go).  Sizes are counted in MiB.              *)
(***************************************************************************)
newChunckWriter ==
  [kind |-> "chunk", firstWrite |-> TRUE, isClosed |-> FALSE, uploadId |-> "",
   parts |-> <<>>, cnt |-> 1, buf |-> <<>>]

newAutoWriter ==
  [kind |-> "auto", firstWrite |-> FALSE, isClosed |-> FALSE, uploadId |-> "",
   parts |-> <<>>, cnt |-> 1, buf |-> <<>>]

newStoreWriter(chunkSize) ==
  IF chunkSize > 0 THEN newChunckWriter ELSE newAutoWriter

\* storeChunkWriter.Cancel: AbortMultipartUpload with a background context
scwCancel_StaysOpen(sw, st, up) ==
  LET a == AbortMultipartUpload(st, sw.uploadId, up)
  IN [sw |-> sw, st |-> a.st, err |-> IF a.ok THEN "nil" ELSE "ErrStore"]

scwCancel(sw, st, up) ==
  LET a == AbortMultipartUpload(st, sw.uploadId, up)
  IN [sw |-> [sw EXCEPT !.isClosed = TRUE],
      st |-> a.st,
      err |-> IF a.ok THEN "nil" ELSE "ErrStore"]

\* storeAutoWriter.Cancel
sawCancel(sw, st, up) ==
  [sw |-> [sw EXCEPT !.isClosed = TRUE], st |-> st, err |-> "nil"]

swCancel(sw, st, up) ==
  IF sw.kind = "chunk" THEN scwCancel(sw, st, up) ELSE sawCancel(sw, st, up)

\* storeChunkWriter.Write; done: the context is cancelled when the select
\* is reached; up: the calls made with the writer's context succeed; upBg:
\* so do those made with a background context
scwWrite_NoSelect(sw, st, p, done, up, upBg) ==
  IF sw.isClosed THEN [sw |-> sw, st |-> st, err |-> "ErrWriterClosed"]
  ELSE
    LET o == IF sw.firstWrite THEN NewMultipartUpload(st, up)
             ELSE [st |-> st, ok |-> TRUE]
        sw1 == IF sw.firstWrite
               THEN [sw EXCEPT !.uploadId = "id", !.firstWrite = FALSE]
               ELSE sw
        q == PutObjectPart(o.st, sw1.uploadId, sw1.cnt, p, up)
    IN IF ~o.ok THEN [sw |-> sw, st |-> o.st, err |-> ctxErr(done)]
       ELSE IF ~q.ok THEN [sw |-> sw1, st |-> q.st, err |-> ctxErr(done)]
       ELSE [sw |-> [sw1 EXCEPT !.parts = Append(@, sw1.cnt), !.cnt = @ + 1],
             st |-> q.st, err |-> "nil"]

scwWrite_SameIndex(sw, st, p, done, up, upBg) ==
  IF sw.isClosed THEN [sw |-> sw, st |-> st, err |-> "ErrWriterClosed"]
  ELSE
    LET o == IF sw.firstWrite THEN NewMultipartUpload(st, up)
             ELSE [st |-> st, ok |-> TRUE]
        sw1 == IF sw.firstWrite
               THEN [sw EXCEPT !.uploadId = "id", !.firstWrite = FALSE]
               ELSE sw
        q == PutObjectPart(o.st, sw1.uploadId, sw1.cnt, p, up)
    IN IF ~o.ok THEN [sw |-> sw, st |-> o.st, err |-> ctxErr(done)]
       ELSE IF done
       THEN LET c == scwCancel(sw1, o.st, upBg)
            IN [sw |-> c.sw, st |-> c.st, err |-> "ErrCanceled"]
       ELSE IF ~q.ok THEN [sw |-> sw1, st |-> q.st, err |-> "ErrStore"]
       ELSE [sw |-> [sw1 EXCEPT !.parts = Append(@, sw1.cnt)],
             st |-> q.st, err |-> "nil"]

scwWrite(sw, st, p, done, up, upBg) ==
  IF sw.isClosed THEN [sw |-> sw, st |-> st, err |-> "ErrWriterClosed"]
  ELSE
    LET o == IF sw.firstWrite THEN NewMultipartUpload(st, up)
             ELSE [st |-> st, ok |-> TRUE]
        sw1 == IF sw.firstWrite
               THEN [sw EXCEPT !.uploadId = "id", !.firstWrite = FALSE]
               ELSE sw
        q == PutObjectPart(o.st, sw1.uploadId, sw1.cnt, p, up)
    IN IF ~o.ok THEN [sw |-> sw, st |-> o.st, err |-> ctxErr(done)]
       ELSE IF done
       THEN LET c == scwCancel(sw1, o.st, upBg)
            IN [sw |-> c.sw, st |-> c.st, err |-> "ErrCanceled"]
       ELSE IF ~q.ok THEN [sw |-> sw1, st |-> q.st, err |-> "ErrStore"]
       ELSE [sw |-> [sw1 EXCEPT !.parts = Append(@, sw1.cnt), !.cnt = @ + 1],
             st |-> q.st, err |-> "nil"]

\* storeAutoWriter.Write
sawWrite(sw, st, p) ==
  IF sw.isClosed THEN [sw |-> sw, st |-> st, err |-> "ErrWriterClosed"]
  ELSE [sw |-> [sw EXCEPT !.buf = @ \o p], st |-> st, err |-> "nil"]

swWrite(sw, st, p, done, up, upBg) ==
  IF sw.kind = "chunk" THEN scwWrite(sw, st, p, done, up, upBg)
  ELSE sawWrite(sw, st, p)

\* the Write calls an encryption writer makes on the upload writer, in
\* order, up to the first that fails: failAt is its index (0: none failed)
RECURSIVE swWriteAll(_, _, _, _, _, _, _)
swWriteAll(sw, st, writes, k, done, up, upBg) ==
  IF k > Len(writes) THEN [sw |-> sw, st |-> st, failAt |-> 0]
  ELSE LET o == swWrite(sw, st, writes[k], done, up, upBg)
       IN IF o.err # "nil" THEN [sw |-> o.sw, st |-> o.st, failAt |-> k]
          ELSE swWriteAll(o.sw, o.st, writes, k + 1, done, up, upBg)

\* storeChunkWriter.Close: the completion runs in a goroutine of its own
scwClose(sw) == [sw EXCEPT !.isClosed = TRUE]

completeUpload_NoParts(sw, st, up) ==
  LET c == CompleteMultipartUpload(st, sw.uploadId, <<>>, up)
  IN [st |-> c.st,
      res |-> IF c.ok
              THEN [info |-> [completed |-> TRUE, parts |-> <<>>],
                    err |-> "nil"]
              ELSE [info |-> NoInfo, err |-> "ErrStore"]]

\* CompleteMultipartUpload as run by that goroutine: what it sends to fchan
completeUpload(sw, st, up) ==
  LET c == CompleteMultipartUpload(st, sw.uploadId, sw.parts, up)
  IN [st |-> c.st,
      res |-> IF c.ok
              THEN [info |-> [completed |-> TRUE, parts |-> sw.parts],
                    err |-> "nil"]
              ELSE [info |-> NoInfo, err |-> "ErrStore"]]

\* storeAutoWriter.Close: PutObject of the buffer, its result sent to fchan
\* and its error returned
sawClose(sw, st, up) ==
  LET c == PutObject(st, sw.buf, up)
  IN [sw |-> [sw EXCEPT !.isClosed = TRUE],
      st |-> c.st,
      res |-> IF c.ok
              THEN [info |-> [completed |-> TRUE, parts |-> <<>>],
                    err |-> "nil"]
              ELSE [info |-> NoInfo, err |-> "ErrStore"]]

(***************************************************************************)
(* State of one encryption followed by one decryption.                      *)
(***************************************************************************)
VARIABLES
  hdr,        \* the header handed to NewEncWriter
  destCloser, \* whether the writer's destination is an io.WriteCloser
  ew,         \* the encryption writer
  dest,       \* the Write calls the destination accepted, oldest first
  destCloses, \* number of Close calls the destination received
  destFaults, \* number of Write calls the destination failed
  sealLog,    \* every AEAD seal made by the writer, oldest first
  wres,       \* the last call on the writer and what it returned
  offered,    \* number of plaintext bytes offered to Write so far
  plain,      \* the bytes of the Write calls that returned no error
  wfail,      \* a Write returned an error
  cfail,      \* a Close returned an error
  nCloses,    \* number of Close calls on the writer
  phase,      \* "write": the writer is in use; "read": the reader is in use
  stream,     \* the bytes given to NewDecReader
  tampered,   \* how the stream was altered on its way to the reader
  dr,         \* the decoding reader
  rres,       \* the last Read and what it returned
  out,        \* the bytes delivered by the Read calls so far, in order
  rerr,       \* the first error a Read returned ("nil": none so far)
  ppc,        \* PushObject: where the calling goroutine is
  pret,       \* PushObject: what it returned
  pchunk,     \* PushObject: its chunkSize argument
  pname,      \* PushObject: its filename argument
  psrc,       \* the source r: bytes read so far and bytes left
  ctxDone,    \* the context is cancelled
  ph,         \* the header PushObject made
  pew,        \* the encryption writer PushObject made
  sw,         \* the upload writer PushObject made
  tpc,        \* the copying goroutine: "none", "run", "send", "done"
  terr,       \* the error the copying goroutine sends on errc
  cpc,        \* the completing goroutine: "none", "run", "done"
  fchan,      \* the upload writer's channel of capacity 1
  store,      \* the object store
  storeUp,    \* the object store is reachable
  outages,    \* number of times the object store became unreachable
  upc,        \* the caller of an upload writer: "idle", "open", "blocked"
  ulog,       \* the numbers of calls made on the upload writer so far
  ures,       \* the last call on the upload writer and what it returned
  ugo,        \* goroutines of Close that have not called the store yet
  usend,      \* results waiting to be sent on fchan, oldest first
  usent,      \* number of values written to fchan
  uwaited,    \* WaitOnFinished: whether it returned, and what
  lf          \* ListFiles: its position, what it received and returned

cvars == <<hdr, destCloser, ew, dest, destCloses, destFaults, sealLog, wres,
           offered,
           plain, wfail, cfail, nCloses, phase, stream, tampered, dr, rres,
           out, rerr>>

wvars == <<hdr, destCloser, ew, dest, destCloses, destFaults, sealLog, wres,
           offered, plain, wfail, cfail, nCloses>>

pvars == <<ppc, pret, pchunk, pname, psrc, ctxDone, ph, pew, sw, tpc, terr, cpc,
           fchan, store, storeUp, outages>>

uvars == <<upc, ulog, ures, ugo, usend, usent, uwaited>>

vars == <<cvars, pvars, uvars, lf>>

NoCall == [op |-> "none", plen |-> 0, n |-> 0, err |-> "nil"]
NoRead == [made |-> FALSE, plen |-> 0, n |-> 0, err |-> "nil",
           outBefore |-> 0]
NoUpload == [op |-> "none", err |-> "nil", closedBefore |-> FALSE,
             doneBefore |-> FALSE, inProgBefore |-> FALSE, nth |-> 0,
             nthAfterDone |-> 0, okWritesBefore |-> 0, issued |-> <<>>]

Init ==
  /\ \E cs \in 0..MaxChunk, fn \in Filenames, lo \in 1..MaxIV :
       hdr = NewHeader(cs, fn, [hi |-> 1, lo |-> lo])
  /\ destCloser \in BOOLEAN
  /\ ew = NewEncWriter(hdr)
  /\ dest = <<>>
  /\ destCloses = 0
  /\ destFaults = 0
  /\ sealLog = <<>>
  /\ wres = NoCall
  /\ offered = 0
  /\ plain = <<>>
  /\ wfail = FALSE
  /\ cfail = FALSE
  /\ nCloses = 0
  /\ phase = "write"
  /\ stream = StreamOf(<<>>)
  /\ tampered = "no"
  /\ dr = NewDecReader
  /\ rres = NoRead
  /\ out = <<>>
  /\ rerr = "nil"
  /\ ppc = "idle"
  /\ pret = [info |-> NoInfo, err |-> "nil"]
  /\ pchunk = 0
  /\ pname = <<>>
  /\ psrc = [read |-> 0, left |-> 0]
  /\ ctxDone = FALSE
  /\ ph = NewHeader(0, <<>>, [hi |-> 0, lo |-> 0])
  /\ pew = NewEncWriter(ph)
  /\ sw = newStoreWriter(0)
  /\ tpc = "none"
  /\ terr = "nil"
  /\ cpc = "none"
  /\ fchan = <<>>
  /\ store = NoStore
  /\ storeUp = TRUE
  /\ outages = 0
  /\ upc = "idle"
  /\ ulog = [calls |-> 0, afterDone |-> 0, writes |-> 0, okWrites |-> 0,
             closes |-> 0, cancels |-> 0]
  /\ ures = NoUpload
  /\ ugo = 0
  /\ usend = <<>>
  /\ usent = 0
  /\ uwaited = [made |-> FALSE, res |-> [info |-> NoInfo, err |-> "nil"]]
  /\ lf = [pc |-> "idle", ctxDone |-> FALSE, log |-> <<>>, objects |-> <<>>,
           err |-> "nil", ret |-> [objects |-> <<>>, err |-> "nil"]]

\* the next k bytes of the caller's data
NextBytes(k) == [i \in 1..k |-> offered + i]

\* Write(p) on the encryption writer, p the next k bytes; the destination
\* fails its failAt-th Write of the call (0: none)
Write(k, failAt) ==
  /\ phase = "write"
  /\ offered + k <= MaxLen
  /\ LET r == ewWrite(hdr, ew, NextBytes(k), failAt)
     IN /\ failAt > 0 => (r.lost # <<>> /\ destFaults < MaxFaults)
        /\ ew' = r.w
        /\ dest' = dest \o r.pushed
        /\ destFaults' = destFaults + Len(r.lost)
        /\ sealLog' = sealLog \o r.seals
        /\ wres' = [op |-> "Write", plen |-> k, n |-> r.n, err |-> r.err]
        /\ plain' = IF r.err = "nil" THEN plain \o NextBytes(k) ELSE plain
        /\ wfail' = (wfail \/ r.err # "nil")
  /\ offered' = offered + k
  /\ UNCHANGED <<lf, hdr, destCloser, destCloses, cfail, nCloses, phase, stream,
                 tampered, dr, rres, out, rerr, pvars, uvars>>

\* Close() on the encryption writer
Close(failAt) ==
  /\ phase = "write"
  /\ nCloses < 2
  /\ LET r == ewClose(hdr, ew, failAt, destCloser)
     IN /\ failAt > 0 => (r.lost # <<>> /\ destFaults < MaxFaults)
        /\ ew' = r.w
        /\ dest' = dest \o r.pushed
        /\ destFaults' = destFaults + Len(r.lost)
        /\ destCloses' = destCloses + r.closes
        /\ sealLog' = sealLog \o r.seals
        /\ wres' = [op |-> "Close", plen |-> 0, n |-> 0, err |-> r.err]
        /\ cfail' = (cfail \/ r.err # "nil")
  /\ nCloses' = nCloses + 1
  /\ UNCHANGED <<lf, hdr, destCloser, offered, plain, wfail, phase, stream,
                 tampered, dr, rres, out, rerr, pvars, uvars>>

\* ReadFrom(r) on the encryption writer, r a source holding the next k bytes
ReadFrom(k) ==
  /\ phase = "write"
  /\ offered + k <= MaxLen
  /\ LET r == ewReadFrom(hdr, ew, NextBytes(k))
     IN /\ ew' = r.w
        /\ dest' = dest \o r.pushed
        /\ sealLog' = sealLog \o r.seals
        /\ wres' = [op |-> "ReadFrom", plen |-> k, n |-> r.n, err |-> r.err]
        /\ plain' = IF r.err = "nil" THEN plain \o NextBytes(k) ELSE plain
        /\ wfail' = (wfail \/ r.err # "nil")
  /\ offered' = offered + k
  /\ UNCHANGED <<lf, hdr, destCloser, destCloses, destFaults, cfail, nCloses,
                 phase, stream, tampered, dr, rres, out, rerr, pvars, uvars>>

\* the reader's phase starts on the bytes s; the writer is not used again
BeginRead(s, how) ==
  /\ phase = "write"
  /\ nCloses > 0
  /\ destFaults = 0
  /\ stream' = s
  /\ tampered' = how
  /\ phase' = "read"
  /\ wres' = NoCall
  /\ UNCHANGED <<lf, hdr, destCloser, ew, dest, destCloses, destFaults, sealLog,
                 offered, plain, wfail, cfail, nCloses, dr, rres, out, rerr,
                 pvars, uvars>>

\* NewDecReader over the bytes the destination holds
StartRead == BeginRead(StreamOf(Flatten(dest)), "no")

\* Read(p) on the decoding reader, p a fresh buffer of plen bytes
Read(plen, g) ==
  /\ phase = "read"
  /\ rres.err # "panic"
  /\ LET r == dmrRead(stream, dr, Zeros(plen), g)
     IN /\ dr' = r.d
        /\ rres' = [made |-> TRUE, plen |-> plen, n |-> r.n, err |-> r.err,
                    outBefore |-> Len(out)]
        /\ rerr' = IF rerr = "nil" /\ r.err \notin {"nil", "EOF"}
                   THEN r.err ELSE rerr
        /\ out' = IF r.n >= 0 /\ r.n <= plen
                  THEN out \o SubSeq(r.p, 1, r.n) ELSE out
  /\ UNCHANGED <<lf, wvars, phase, stream, tampered, pvars, uvars>>

\* WriteTo(w) on the decoding reader; out takes what w received
WriteTo(g) ==
  /\ phase = "read"
  /\ rres.err # "panic"
  /\ LET r == dmrWriteTo(stream, dr, g)
     IN /\ dr' = r.d
        /\ rres' = [made |-> TRUE, plen |-> 0, n |-> Len(r.written),
                    err |-> r.err, outBefore |-> Len(out)]
        /\ rerr' = IF rerr = "nil" /\ r.err \notin {"nil", "EOF"}
                   THEN r.err ELSE rerr
        /\ out' = out \o r.written
  /\ UNCHANGED <<lf, wvars, phase, stream, tampered, pvars, uvars>>

\* the values four bytes that are no sequence-number field may hold; records
\* are read at record boundaries unless the header's chunk size was altered
Garbage ==
  IF stream.h.cs = hdr.cs THEN {0} ELSE 0..LAST_CHUNK_SEQ_NUM

Next ==
  \/ \E k \in 0..MaxLen : Write(k, 0)
  \/ Close(0)
  \/ StartRead
  \/ \E plen \in 0..MaxBuf, g \in Garbage : Read(plen, g)

Spec == Init /\ [][Next]_vars

(***************************************************************************)
(* The reader used through Read and WriteTo.                                *)
(***************************************************************************)
NextReader ==
  \/ \E k \in 0..MaxLen : Write(k, 0)
  \/ Close(0)
  \/ StartRead
  \/ \E plen \in 0..MaxBuf, g \in Garbage : Read(plen, g)
  \/ \E g \in Garbage : WriteTo(g)

SpecReader == Init /\ [][NextReader]_vars

(***************************************************************************)
(* The writer over a destination whose Write calls may fail.                *)
(***************************************************************************)
FailChoices == 1..2

FaultyWrite == \E k \in 0..MaxLen, f \in FailChoices : Write(k, f)

FaultyClose == \E f \in FailChoices : Close(f)

NextFaulty ==
  \/ \E k \in 0..MaxLen : Write(k, 0)
  \/ Close(0)
  \/ FaultyWrite
  \/ FaultyClose

SpecFaulty == Init /\ [][NextFaulty]_vars

(***************************************************************************)
(* The writer used through Write, ReadFrom and Close.                       *)
(***************************************************************************)
NextReadFrom ==
  \/ \E k \in 0..MaxLen : Write(k, 0)
  \/ \E k \in 0..MaxLen : ReadFrom(k)
  \/ Close(0)

SpecReadFrom == Init /\ [][NextReadFrom]_vars

(***************************************************************************)
(* A validly encrypted stream altered on its way to the reader.             *)
(***************************************************************************)
\* what the destination holds
sent == StreamOf(Flatten(dest))

\* every Write was accepted and the writer was closed once, without error
Valid == ~wfail /\ ~cfail /\ nCloses = 1 /\ destFaults = 0

RECURSIVE Without(_, _, _)
Without(s, S, k) ==
  IF k > Len(s) THEN <<>>
  ELSE (IF k \in S THEN <<>> ELSE <<s[k]>>) \o Without(s, S, k + 1)

\* ciphertext or tag bytes nobody sealed: they open under no writer's nonce
Forge(box) == [box EXCEPT !.nonce = [hi |-> 0, lo |-> 0]]

Alter(how, h, body) ==
  /\ Valid
  /\ sent.hasHdr
  /\ BeginRead([hasHdr |-> TRUE, h |-> h, body |-> body], how)

\* one or more non-final records are deleted, the sentinel record is kept
DeleteRecords ==
  /\ hdr.cs > 0
  /\ \E S \in (SUBSET (1..(Len(sent.body) - 1))) \ {{}} :
       Alter("delete", sent.h, Without(sent.body, S, 1))

\* two records change places
ReorderRecords ==
  /\ hdr.cs > 0
  /\ \E i, j \in 1..Len(sent.body) :
       /\ i < j
       /\ Alter("reorder", sent.h,
                [sent.body EXCEPT ![i] = sent.body[j], ![j] = sent.body[i]])

\* one record is replaced by a copy of another
SubstituteRecord ==
  /\ hdr.cs > 0
  /\ \E i, j \in 1..Len(sent.body) :
       /\ i # j
       /\ Alter("substitute", sent.h, [sent.body EXCEPT ![i] = sent.body[j]])

\* the stream is cut at a record boundary before the sentinel record
CutStream ==
  /\ hdr.cs > 0
  /\ \E k \in 0..(Len(sent.body) - 1) :
       Alter("cut", sent.h, SubSeq(sent.body, 1, k))

\* a copy of a record follows the sentinel record
AppendRecord ==
  /\ hdr.cs > 0
  /\ \E i \in 1..Len(sent.body) :
       Alter("append", sent.h, Append(sent.body, sent.body[i]))

\* bytes of the header IV are altered: its first 8 bytes or its last 4
AlterIV ==
  \/ Alter("iv", [sent.h EXCEPT !.iv.hi = 2], sent.body)
  \/ \E x \in 1..LAST_CHUNK_SEQ_NUM :
       Alter("iv", [sent.h EXCEPT !.iv.lo = Xor(@, x)], sent.body)

\* a byte of the 50-byte filename field is altered
AlterFilename ==
  \E i \in {1, filenameHeaderSize} :
    Alter("filename", [sent.h EXCEPT !.fn[i] = 9], sent.body)

\* the chunk size of the header is altered
AlterChunkSize ==
  \E c \in 0..(MaxChunk + 1) :
    /\ c # sent.h.cs
    /\ Alter("chunksize", [sent.h EXCEPT !.cs = c], sent.body)

\* ciphertext or tag bytes of one record are altered
AlterCiphertext ==
  \E i \in 1..Len(sent.body) :
    Alter("ciphertext", sent.h, [sent.body EXCEPT ![i].box = Forge(@)])

\* the sequence-number field of one record is altered: raised by one or two
AlterSeqNum ==
  /\ hdr.cs > 0
  /\ \E i \in 1..Len(sent.body), x \in 1..2 :
       Alter("seqnum", sent.h,
             [sent.body EXCEPT ![i].seq = (@ + x) % Uint32Mod])

\* the base IVs of a second object encrypted under the same key
OtherIVs == {[hi |-> 2, lo |-> 1], [hi |-> 1, lo |-> 2]}

\* the plaintext of the second object: as long, none of its bytes the same
OtherPlain == [i \in 1..Len(plain) |-> 100 + i]

\* what a chunk writer with header h leaves in its destination after one
\* Write of data and Close
EncryptChunks(h, data) ==
  LET a == ecwWrite(h, newEncChunkWriter(h), data, 0)
      b == ecwClose(h, a.w, 0, TRUE)
  IN StreamOf(Flatten(a.pushed \o b.pushed))

\* one record is replaced by the record at the same position of the second
\* object, which has the same filename and chunk size and another base IV
SubstituteForeignRecord ==
  /\ hdr.cs > 0
  /\ \E iv \in OtherIVs, i \in 1..Len(sent.body) :
       LET other == EncryptChunks([hdr EXCEPT !.iv = iv], OtherPlain)
       IN /\ i <= Len(other.body)
          /\ Alter("foreign", sent.h, [sent.body EXCEPT ![i] = other.body[i]])

InitTamper == Init /\ destCloser /\ hdr.iv.lo = 1

NextTamper ==
  \/ \E k \in 0..MaxLen : Write(k, 0)
  \/ Close(0)
  \/ DeleteRecords
  \/ ReorderRecords
  \/ SubstituteRecord
  \/ CutStream
  \/ AppendRecord
  \/ AlterIV
  \/ AlterFilename
  \/ AlterChunkSize
  \/ AlterCiphertext
  \/ \E plen \in 0..MaxBuf, g \in Garbage : Read(plen, g)

SpecTamper == InitTamper /\ [][NextTamper]_vars

\* a valid chunk-mode stream with a sequence number altered or a record of
\* another object put in
NextRecords ==
  \/ \E k \in 0..MaxLen : Write(k, 0)
  \/ Close(0)
  \/ AlterSeqNum
  \/ SubstituteForeignRecord
  \/ \E plen \in 0..MaxBuf, g \in Garbage : Read(plen, g)

SpecRecords == InitTamper /\ [][NextRecords]_vars

(***************************************************************************)
(* Connection.PushObject (store/store.go, lines 72-119): the calling        *)
(* goroutine, the goroutine that copies the source into the encryption      *)
(* writer, and the goroutine that completes a multipart upload.             *)
(***************************************************************************)
\* the outcomes a store call made with the upload's context can have
CallOutcomes ==
  IF ~storeUp THEN {FALSE} ELSE IF ctxDone THEN {TRUE, FALSE} ELSE {TRUE}

Returns(info, err) ==
  /\ ppc' = "returned"
  /\ pret' = [info |-> info, err |-> err]

\* a test of the chunk size that has no upper threshold
wrongChunkSize_NoUpper(chunkSize) ==
  chunkSize # 0 /\ chunkSize < minChunkSize

\* the precondition of PushObject, negated: the chunk size is neither 0 nor
\* within the thresholds of the object store
wrongChunkSize(chunkSize) ==
  chunkSize # 0 /\ (chunkSize < minChunkSize \/ chunkSize > maxChunkSize)

\* PushObject up to its select: the test of the chunk size, the writers,
\* the start of the copying goroutine
PushObject(chunkSize, size, filename) ==
  /\ ppc = "idle"
  /\ pchunk' = chunkSize
  /\ pname' = filename
  /\ IF wrongChunkSize(chunkSize)
     THEN /\ Returns(NoInfo, "ErrWrongChunkSize")
          /\ UNCHANGED <<psrc, ph, pew, sw, tpc>>
     ELSE LET h == NewHeader(chunkSize, filename, [hi |-> 1, lo |-> 1])
          IN /\ psrc' = [read |-> 0, left |-> size]
             /\ ph' = h
             /\ pew' = NewEncWriter(h)
             /\ sw' = newStoreWriter(chunkSize)
             /\ tpc' = "run"
             /\ ppc' = "select"
             /\ pret' = pret
  /\ UNCHANGED <<lf, cvars, uvars, ctxDone, terr, cpc, fchan, store, storeUp, outages>>

\* one turn of the loop of encChunkWriter.ReadFrom: a Read of the source
\* into the chunk-sized buffer, then Write of what was read
CopyChunk ==
  /\ tpc = "run"
  /\ ph.cs > 0
  /\ IF psrc.left = 0
     THEN /\ tpc' = "send"
          /\ terr' = "nil"
          /\ UNCHANGED <<psrc, pew, sw, store>>
     ELSE \E nn \in {1, Min(ph.cs, psrc.left)}, up \in CallOutcomes :
            LET p == [i \in 1..nn |-> psrc.read + i]
                r0 == ecwWrite(ph, pew, p, 0)
                o == swWriteAll(sw, store, r0.pushed, 1, ctxDone, up, storeUp)
                r == IF o.failAt = 0 THEN r0
                     ELSE ecwWrite(ph, pew, p, o.failAt)
            IN /\ psrc' = [read |-> psrc.read + nn, left |-> psrc.left - nn]
               /\ pew' = r.w
               /\ sw' = o.sw
               /\ store' = o.st
               /\ terr' = r.err
               /\ tpc' = IF r.err = "nil" THEN "run" ELSE "send"
  /\ UNCHANGED <<lf, cvars, uvars, ppc, pret, pchunk, pname, ctxDone, ph, cpc, fchan, storeUp,
                 outages>>

\* encWholeWriter.ReadFrom: io.ReadAll of the source into the buffer
CopyWhole ==
  /\ tpc = "run"
  /\ ph.cs = 0
  /\ IF pew.isClosed
     THEN /\ terr' = "ErrWriterClosed"
          /\ UNCHANGED <<psrc, pew>>
     ELSE /\ pew' = [pew EXCEPT !.buf = [i \in 1..psrc.left |-> psrc.read + i]]
          /\ psrc' = [read |-> psrc.read + psrc.left, left |-> 0]
          /\ terr' = "nil"
  /\ tpc' = "send"
  /\ UNCHANGED <<lf, cvars, uvars, ppc, pret, pchunk, pname, ctxDone, ph, sw, cpc, fchan, store,
                 storeUp, outages>>

\* the select takes the case of ctx.Done()
SelectDone ==
  /\ ppc = "select"
  /\ ctxDone
  /\ Returns(NoInfo, "nil")
  /\ UNCHANGED <<lf, cvars, uvars, pchunk, pname, psrc, ctxDone, ph, pew, sw, tpc, terr, cpc,
                 fchan, store, storeUp, outages>>

\* the select takes the case of errc: the copying goroutine's send and the
\* receive happen together; an error cancels the upload and is returned
\* through errs.WrapWithError, which dereferences its second argument
SelectCopied ==
  /\ ppc = "select"
  /\ tpc = "send"
  /\ tpc' = "done"
  /\ IF terr = "nil"
     THEN /\ ppc' = "close"
          /\ UNCHANGED <<pret, sw, store>>
     ELSE LET c == swCancel(sw, store, storeUp)
          IN /\ sw' = c.sw
             /\ store' = c.st
             /\ Returns(NoInfo, IF c.err = "nil" THEN "panic" ELSE terr)
  /\ UNCHANGED <<lf, cvars, uvars, pchunk, pname, psrc, ctxDone, ph, pew, terr, cpc, fchan,
                 storeUp, outages>>

\* ew.Close(), its result dropped: the last writes on the upload writer and,
\* when the encryption writer gets that far, the upload writer's Close
CloseWriter ==
  /\ ppc = "close"
  /\ \E up \in CallOutcomes :
       LET r0 == ewClose(ph, pew, 0, TRUE)
           o == swWriteAll(sw, store, r0.pushed, 1, ctxDone, up, storeUp)
           r == IF o.failAt = 0 THEN r0 ELSE ewClose(ph, pew, o.failAt, TRUE)
           sc == sawClose(o.sw, o.st, up)
       IN /\ pew' = r.w
          /\ IF r.closes = 0
             THEN /\ sw' = o.sw
                  /\ store' = o.st
                  /\ UNCHANGED <<cpc, fchan>>
             ELSE IF o.sw.kind = "chunk"
             THEN /\ sw' = scwClose(o.sw)
                  /\ store' = o.st
                  /\ cpc' = "run"
                  /\ fchan' = fchan
             ELSE /\ sw' = sc.sw
                  /\ store' = sc.st
                  /\ fchan' = Append(fchan, sc.res)
                  /\ cpc' = cpc
  /\ ppc' = "wait"
  /\ UNCHANGED <<lf, cvars, uvars, pret, pchunk, pname, psrc, ctxDone, ph, tpc, terr, storeUp,
                 outages>>

\* the goroutine of storeChunkWriter.Close: CompleteMultipartUpload, then
\* the send on fchan
Complete ==
  /\ cpc = "run"
  /\ Len(fchan) < 1
  /\ \E up \in CallOutcomes :
       LET c == completeUpload(sw, store, up)
       IN /\ store' = c.st
          /\ fchan' = Append(fchan, c.res)
  /\ cpc' = "done"
  /\ UNCHANGED <<lf, cvars, uvars, ppc, pret, pchunk, pname, psrc, ctxDone, ph, pew, sw, tpc,
                 terr, storeUp, outages>>

\* sw.WaitOnFinished(): the receive from fchan, and the return
WaitOnFinished ==
  /\ ppc = "wait"
  /\ fchan # <<>>
  /\ Returns(Head(fchan).info, Head(fchan).err)
  /\ fchan' = Tail(fchan)
  /\ UNCHANGED <<lf, cvars, uvars, pchunk, pname, psrc, ctxDone, ph, pew, sw, tpc, terr, cpc,
                 store, storeUp, outages>>

\* the caller's context is cancelled
CancelContext ==
  /\ ppc \notin {"idle", "returned"}
  /\ ~ctxDone
  /\ ctxDone' = TRUE
  /\ UNCHANGED <<lf, cvars, uvars, ppc, pret, pchunk, pname, psrc, ph, pew, sw, tpc, terr, cpc,
                 fchan, store, storeUp, outages>>

\* the object store becomes unreachable, or reachable again
StoreOutage ==
  /\ ppc \notin {"idle", "returned"}
  /\ \/ storeUp /\ outages < MaxOutages /\ outages' = outages + 1
     \/ ~storeUp /\ outages' = outages
  /\ storeUp' = ~storeUp
  /\ UNCHANGED <<lf, cvars, uvars, ppc, pret, pchunk, pname, psrc, ctxDone, ph, pew, sw, tpc,
                 terr, cpc, fchan, store>>

\* chunk sizes on both sides of the two thresholds; the accepted ones stay
\* near the lower threshold, the buffer being modelled byte by byte
PushChunkSizes ==
  {0, minChunkSize - 1, minChunkSize, minChunkSize + 1, maxChunkSize + 1}

\* the steps of the three goroutines of PushObject
PushSteps ==
  \/ CopyChunk
  \/ CopyWhole
  \/ SelectCopied
  \/ CloseWriter
  \/ Complete
  \/ WaitOnFinished

\* filenames below, at and above the size of the header's filename field
PushFilenames ==
  {<<7, 8>>,
   [i \in 1..filenameHeaderSize |-> 9],
   [i \in 1..(filenameHeaderSize + 1) |-> 9]}

InitPush == Init /\ hdr.cs = 0 /\ ~destCloser

NextPush ==
  \/ \E c \in PushChunkSizes, size \in 0..MaxSrc, fn \in PushFilenames :
       PushObject(c, size, fn)
  \/ PushSteps
  \/ SelectDone
  \/ CancelContext
  \/ StoreOutage

SpecPush == InitPush /\ [][NextPush]_vars

(***************************************************************************)
(* One upload writer used directly, as store/writer_test.go uses it: a      *)
(* caller that makes Write, Close and Cancel calls one after the other, the *)
(* goroutines started by storeChunkWriter.Close, and a second path that     *)
(* waits in WaitOnFinished.                                                 *)
(***************************************************************************)
\* the calls a store received between two of its states
Issued(st, st2) == SubSeq(st2.calls, Len(st.calls) + 1, Len(st2.calls))

\* what is recorded of a call on the upload writer
Result(op, err, st2) ==
  [op |-> op, err |-> err, closedBefore |-> sw.isClosed,
   doneBefore |-> ctxDone, inProgBefore |-> inProgress(store, sw.uploadId),
   nth |-> ulog.calls + 1,
   nthAfterDone |-> IF ctxDone THEN ulog.afterDone + 1 ELSE 0,
   okWritesBefore |-> ulog.okWrites, issued |-> Issued(store, st2)]

Logged(op, err) ==
  [ulog EXCEPT !.calls = @ + 1,
               !.afterDone = IF ctxDone THEN @ + 1 ELSE @,
               !.writes = IF op = "Write" THEN @ + 1 ELSE @,
               !.okWrites = IF op = "Write" /\ err = "nil" THEN @ + 1 ELSE @,
               !.closes = IF op = "Close" THEN @ + 1 ELSE @,
               !.cancels = IF op = "Cancel" THEN @ + 1 ELSE @]

\* newStoreWriter(ctx, chunkSize, core, config)
NewWriter(chunkSize) ==
  /\ upc = "idle"
  /\ upc' = "open"
  /\ sw' = newStoreWriter(chunkSize)
  /\ UNCHANGED <<lf, cvars, ppc, pret, pchunk, pname, psrc, ctxDone, ph, pew, tpc, terr,
                 cpc, fchan, store, storeUp, outages, ulog, ures, ugo, usend,
                 usent, uwaited>>

\* writer.Write(data[0:min(len(data), chunkSize)])
UWrite ==
  /\ upc = "open"
  /\ ulog.calls < MaxCalls
  /\ \E up \in CallOutcomes :
       LET o == swWrite(sw, store, <<ulog.writes + 1>>, ctxDone, up, storeUp)
       IN /\ sw' = o.sw
          /\ store' = o.st
          /\ ures' = Result("Write", o.err, o.st)
          /\ ulog' = Logged("Write", o.err)
  /\ UNCHANGED <<lf, cvars, ppc, pret, pchunk, pname, psrc, ctxDone, ph, pew, tpc, terr,
                 cpc, fchan, storeUp, outages, upc, ugo, usend, usent,
                 uwaited>>

\* writer.Close().  storeChunkWriter.Close starts a goroutine and returns
\* nil; storeAutoWriter.Close puts the object and sends the result on fchan
\* itself, blocking while the channel is full.
UClose ==
  /\ upc = "open"
  /\ ulog.calls < MaxCalls
  /\ IF sw.kind = "chunk"
     THEN /\ sw' = scwClose(sw)
          /\ ugo' = ugo + 1
          /\ ures' = Result("Close", "nil", store)
          /\ ulog' = Logged("Close", "nil")
          /\ UNCHANGED <<store, fchan, usend, usent, upc>>
     ELSE \E up \in CallOutcomes :
            LET c == sawClose(sw, store, up)
            IN /\ sw' = c.sw
               /\ store' = c.st
               /\ ulog' = Logged("Close", c.res.err)
               /\ ugo' = ugo
               /\ IF Len(fchan) < 1
                  THEN /\ fchan' = Append(fchan, c.res)
                       /\ usent' = usent + 1
                       /\ ures' = Result("Close", c.res.err, c.st)
                       /\ UNCHANGED <<usend, upc>>
                  ELSE /\ usend' = Append(usend, c.res)
                       /\ upc' = "blocked"
                       /\ ures' = Result("Close", "blocked", c.st)
                       /\ UNCHANGED <<fchan, usent>>
  /\ UNCHANGED <<lf, cvars, ppc, pret, pchunk, pname, psrc, ctxDone, ph, pew, tpc, terr,
                 cpc, storeUp, outages, uwaited>>

\* writer.Cancel()
UCancel ==
  /\ upc = "open"
  /\ ulog.calls < MaxCalls
  /\ LET c == swCancel(sw, store, storeUp)
     IN /\ sw' = c.sw
        /\ store' = c.st
        /\ ures' = Result("Cancel", c.err, c.st)
        /\ ulog' = Logged("Cancel", c.err)
  /\ UNCHANGED <<lf, cvars, ppc, pret, pchunk, pname, psrc, ctxDone, ph, pew, tpc, terr,
                 cpc, fchan, storeUp, outages, upc, ugo, usend, usent,
                 uwaited>>

\* a goroutine of storeChunkWriter.Close calls CompleteMultipartUpload
UComplete ==
  /\ ugo > 0
  /\ \E up \in CallOutcomes :
       LET c == completeUpload(sw, store, up)
       IN /\ store' = c.st
          /\ usend' = Append(usend, c.res)
  /\ ugo' = ugo - 1
  /\ UNCHANGED <<lf, cvars, ppc, pret, pchunk, pname, psrc, ctxDone, ph, pew, sw, tpc,
                 terr, cpc, fchan, storeUp, outages, upc, ulog, ures, usent,
                 uwaited>>

\* a send on fchan goes through: the channel has room
USend ==
  /\ usend # <<>>
  /\ Len(fchan) < 1
  /\ fchan' = Append(fchan, Head(usend))
  /\ usend' = Tail(usend)
  /\ usent' = usent + 1
  /\ IF upc = "blocked"
     THEN /\ upc' = "open"
          /\ ures' = [ures EXCEPT !.err = Head(usend).err]
     ELSE UNCHANGED <<upc, ures>>
  /\ UNCHANGED <<lf, cvars, ppc, pret, pchunk, pname, psrc, ctxDone, ph, pew, sw, tpc,
                 terr, cpc, store, storeUp, outages, ulog, ugo, uwaited>>

\* WaitOnFinished() returns what it received from fchan
UWait ==
  /\ upc # "idle"
  /\ ~uwaited.made
  /\ fchan # <<>>
  /\ uwaited' = [made |-> TRUE, res |-> Head(fchan)]
  /\ fchan' = Tail(fchan)
  /\ UNCHANGED <<lf, cvars, ppc, pret, pchunk, pname, psrc, ctxDone, ph, pew, sw, tpc,
                 terr, cpc, store, storeUp, outages, upc, ulog, ures, ugo,
                 usend, usent>>

\* cancel(): the writer's context is cancelled
UCancelContext ==
  /\ upc # "idle"
  /\ ~ctxDone
  /\ ctxDone' = TRUE
  /\ UNCHANGED <<lf, cvars, ppc, pret, pchunk, pname, psrc, ph, pew, sw, tpc, terr, cpc,
                 fchan, store, storeUp, outages, uvars>>

\* the object store becomes unreachable, or reachable again
UStoreOutage ==
  /\ upc # "idle"
  /\ \/ storeUp /\ outages < MaxOutages /\ outages' = outages + 1
     \/ ~storeUp /\ outages' = outages
  /\ storeUp' = ~storeUp
  /\ UNCHANGED <<lf, cvars, ppc, pret, pchunk, pname, psrc, ctxDone, ph, pew, sw, tpc,
                 terr, cpc, fchan, store, uvars>>

\* the chunk sizes of TestContextCancel
UploadChunkSizes == {0, 2, 4, 15}

\* the steps the upload writer's goroutines and its waiter can take
UploadSteps ==
  \/ UComplete
  \/ USend
  \/ UWait

NextUpload ==
  \/ \E c \in UploadChunkSizes : NewWriter(c)
  \/ UWrite
  \/ UClose
  \/ UCancel
  \/ UploadSteps
  \/ UCancelContext
  \/ UStoreOutage

SpecUpload == InitPush /\ [][NextUpload]_vars

\* the goroutines of Close and the waiter are scheduled: a call to the
\* store returns, a send on a channel with room and a receive from a
\* channel that holds a value go through
SpecUploadLive ==
  /\ InitPush
  /\ [][NextUpload]_vars
  /\ WF_vars(UComplete)
  /\ WF_vars(USend)
  /\ WF_vars(UWait)

(***************************************************************************)
(***************************************************************************)
(* ListFiles (store/store.go).  The listing is the channel of entries of    *)
(* ListObjects: an entry is an object or carries an error; the entry sent   *)
(* when the context is cancelled carries the context's error.               *)
(***************************************************************************)
MaxList == 3

\* the errors a listing entry can carry besides the context's
HardErrors == {"E1", "E2"}

\* ctx.Err() of the context of ListFiles
ctxErrOf(done) == IF done THEN "canceled" ELSE "nil"

\* the entries the channel can yield next
ListEntries ==
  {[err |-> "nil", key |-> Len(lf.log) + 1]}
    \cup {[err |-> e, key |-> 0] : e \in HardErrors}
    \cup (IF lf.ctxDone THEN {[err |-> "canceled", key |-> 0]} ELSE {})

\* the body of the loop of ListFiles for the entry ob
listFilesBody(l, ob) ==
  IF ob.err # "nil"
  THEN IF ob.err = ctxErrOf(l.ctxDone)
       THEN [l EXCEPT !.pc = "returned",
                      !.ret = [objects |-> <<>>, err |-> ctxErrOf(l.ctxDone)]]
       ELSE [l EXCEPT !.err = ob.err]
  ELSE [l EXCEPT !.objects = Append(@, ob)]

\* the call of ListFiles
ListFiles ==
  /\ lf.pc = "idle"
  /\ lf' = [lf EXCEPT !.pc = "drain"]
  /\ UNCHANGED <<cvars, pvars, uvars>>

\* the channel yields an entry
ListNext(ob) ==
  /\ lf.pc = "drain"
  /\ Len(lf.log) < MaxList
  /\ lf' = listFilesBody([lf EXCEPT !.log = Append(@, ob)], ob)
  /\ UNCHANGED <<cvars, pvars, uvars>>

\* the channel is closed: the loop ends
ListEnd ==
  /\ lf.pc = "drain"
  /\ lf' = [lf EXCEPT !.pc = "returned",
                      !.ret = [objects |-> lf.objects, err |-> lf.err]]
  /\ UNCHANGED <<cvars, pvars, uvars>>

\* the context of the call is cancelled
ListCancel ==
  /\ ~lf.ctxDone
  /\ lf' = [lf EXCEPT !.ctxDone = TRUE]
  /\ UNCHANGED <<cvars, pvars, uvars>>

NextList ==
  \/ ListFiles
  \/ \E ob \in ListEntries : ListNext(ob)
  \/ ListEnd
  \/ ListCancel

SpecList == InitPush /\ [][NextList]_vars

(* Properties.                                                              *)
(***************************************************************************)
IsPrefix(a, b) == Len(a) <= Len(b) /\ a = SubSeq(b, 1, Len(a))

CeilDiv(a, b) == (a + b - 1) \div b

\* the reader works on the unaltered bytes of a validly written object
ReadingValid == phase = "read" /\ tampered = "no" /\ Valid

\* C1: round trip.  Closing a writer whose Writes were all accepted returns
\* no error, for every plaintext (the empty one included) and every chunk
\* size; reading the produced bytes returns no error other than io.EOF, and
\* at io.EOF the delivered bytes are exactly the plaintext and Filename()
\* returns the header's filename.
C1_RoundTrip ==
  /\ (phase = "write" /\ wres.op = "Close" /\ nCloses = 1 /\ ~wfail)
       => wres.err = "nil"
  /\ (phase = "read" /\ tampered = "no" /\ nCloses = 1 /\ ~wfail /\ rres.made)
       => /\ rres.err \in {"nil", "EOF"}
          /\ rres.err = "EOF"
               => /\ out = plain
                  /\ dmrFilename(dr) = [name |-> Filename(hdr), err |-> "nil"]

\* C2: fail-closed record handling.  On a valid chunk-mode stream from
\* which non-final records were deleted, or whose records were reordered or
\* substituted, no Read reports io.EOF unless a Read reported an error.
C2_FailClosed ==
  (phase = "read" /\ tampered \in {"delete", "reorder", "substitute"})
    => (rres.err = "EOF" => rerr # "nil")

\* C3: sentinel required.  On a chunk-mode stream cut at a record boundary
\* before its sentinel record (down to the header alone), or carrying a
\* record after the sentinel record, no Read reports io.EOF unless a Read
\* reported an error.
C3_SentinelRequired ==
  (phase = "read" /\ tampered \in {"cut", "append"})
    => (rres.err = "EOF" => rerr # "nil")

\* C4: tamper detection, both modes.  After the header IV, the filename
\* field, the chunk size or the ciphertext or tag of a record was altered:
\* no Read reports io.EOF unless reading failed before; as long as reading
\* has not failed the delivered bytes are a prefix of the plaintext; and
\* once the reader has consumed the whole stream reading has failed.
TamperKinds == {"iv", "filename", "chunksize", "ciphertext"}

C4_TamperDetected ==
  (phase = "read" /\ tampered \in TamperKinds)
    => /\ rres.err = "EOF" => rerr # "nil"
       /\ rerr = "nil" => IsPrefix(out, plain)
       /\ (rres.made /\ dr.pos = TotalLen(stream.body)) => rerr # "nil"

\* C4 witness: a Read on an altered stream returned an authentication error
\* after earlier Reads had delivered authentic bytes.
C4_Witness ==
  /\ phase = "read"
  /\ tampered \in TamperKinds
  /\ rres.err = "ErrAuth"
  /\ rres.outBefore > 0

\* C5: nonce uniqueness.  Over any sequence of Write and Close calls on one
\* chunk writer, failed destination writes included, no two seals use the
\* same derived nonce.
C5_NonceUnique ==
  hdr.cs > 0 =>
    \A i, j \in 1..Len(sealLog) :
      i < j => sealLog[i].nonce # sealLog[j].nonce

\* C6: emitted sequence numbers.  After Writes of total length L > 0 that
\* were all accepted and one Close on a chunk writer of chunk size C, the
\* destination holds the header and exactly ceil(L/C) records; record i
\* carries sequence number i-1, the last one the sentinel; every non-final
\* record holds exactly C plaintext bytes, and the records hold the
\* plaintext in order.
C6_EmittedSeqNums ==
  (hdr.cs > 0 /\ ~wfail /\ nCloses = 1 /\ Len(plain) > 0) =>
    LET b == sent.body
        k == Len(b)
    IN /\ sent.hasHdr
       /\ wres.op = "Close" => wres.err = "nil"
       /\ k = CeilDiv(Len(plain), hdr.cs)
       /\ \A i \in 1..k :
            /\ b[i].t = "rec"
            /\ b[i].seq = IF i = k THEN LAST_CHUNK_SEQ_NUM ELSE i - 1
            /\ i < k => Len(b[i].box.pt) = hdr.cs
            /\ b[i].box.pt = SubSeq(plain, (i - 1) * hdr.cs + 1,
                                     Min(i * hdr.cs, Len(plain)))

\* C6 witness: a closed chunk writer whose destination holds three records,
\* a short final one among them.
C6_Witness ==
  /\ hdr.cs = 2
  /\ ~wfail
  /\ nCloses = 1
  /\ Len(plain) = 5
  /\ Len(sent.body) = 3

\* C7: sentinel reserved.  No seal of a non-final chunk carries the
\* sentinel sequence number.
C7_SentinelReserved ==
  hdr.cs > 0 =>
    \A i \in 1..Len(sealLog) :
      sealLog[i].seq = LAST_CHUNK_SEQ_NUM => sealLog[i].final

\* C8: chunk-mode reader buffering.  On a valid object every Read returns
\* 0 <= n <= len(p) without a panic, and the bytes delivered so far are the
\* plaintext's first bytes, in order.
C8_ReaderBuffering ==
  (ReadingValid /\ hdr.cs > 0 /\ rres.made) =>
    /\ rres.err # "panic"
    /\ 0 <= rres.n /\ rres.n <= rres.plen
    /\ Len(out) = rres.outBefore + rres.n
    /\ IsPrefix(out, plain)

\* C9: end-of-stream protocol on a valid object, either mode.  A Read with
\* an empty buffer while plaintext remains returns (0, nil); a Read with a
\* buffer of k bytes, k no more than the remaining plaintext, returns
\* exactly the next k bytes with nil (io.EOF only when they are the last);
\* once all the plaintext was delivered a Read returns (0, io.EOF).
C9_EOFProtocol ==
  (ReadingValid /\ rres.made /\ Len(plain) > 0) =>
    LET rem == Len(plain) - rres.outBefore
    IN /\ (rres.plen = 0 /\ rem > 0) => (rres.n = 0 /\ rres.err = "nil")
       /\ (rres.plen > 0 /\ rres.plen <= rem)
            => /\ rres.n = rres.plen
               /\ out = SubSeq(plain, 1, rres.outBefore + rres.plen)
               /\ \/ rres.err = "nil"
                  \/ rres.err = "EOF" /\ rres.plen = rem
       /\ rem = 0 => (rres.n = 0 /\ rres.err = "EOF")

\* C10: PushObject terminates on success.  With an accepted chunk size, no
\* cancellation and no failed store call, PushObject that has not returned
\* can take a step (it is never blocked for good), and what it returns is a
\* nil error with the descriptor of a completed upload.
PushAccepted ==
  /\ ppc # "idle"
  /\ (pchunk = 0 \/ (pchunk >= minChunkSize /\ pchunk <= maxChunkSize))
  /\ ~ctxDone
  /\ store.failed = 0

C10_PushTerminates ==
  PushAccepted =>
    /\ ppc # "returned" => ENABLED PushSteps
    /\ ppc = "returned" => (pret.err = "nil" /\ pret.info.completed)

\* the calls of one kind an object store received, oldest first
CallsOf(calls, op) == SelectSeq(calls, LAMBDA c : c.op = op)

\* a PutObjectPart call failed
PartFailed == \E i \in 1..Len(store.calls) :
                store.calls[i].op = "PutObjectPart" /\ ~store.calls[i].ok

\* C11: no swallowed write-path failure.  Once a part upload has failed on
\* a multipart pipeline whose context is not cancelled (the upload of the
\* final record made by the encryption writer's Close included), the upload
\* is never completed, and when PushObject returns it returns an error and
\* an abort of the session was attempted.
C11_NoSwallowedFailure ==
  (pchunk > 0 /\ PartFailed /\ ~ctxDone) =>
    /\ store.completed = <<>>
    /\ ppc = "returned"
         => /\ pret.err # "nil"
            /\ CallsOf(store.calls, "AbortMultipartUpload") # <<>>

\* C12: PushObject on cancellation.  Whenever the select takes the case of
\* the cancelled context, PushObject returns a non-nil error.
C12_CancelReturnsError == [][SelectDone => pret'.err # "nil"]_vars

\* C13: PushObject on transfer error.  When the copying goroutine reported
\* an error, the upload writer was cancelled and PushObject returned an
\* error that carries the reported one, whether Cancel failed or not.
C13_TransferError ==
  (ppc = "returned" /\ tpc = "done" /\ terr # "nil") =>
    /\ sw.isClosed
    /\ pret.err = terr

\* C14: no open session after cancellation.  While the context is cancelled
\* and the multipart session is still in progress, some goroutine of the
\* pipeline can still take a step: the pipeline never comes to rest with
\* the session neither aborted nor completed.
PushProgress == PushSteps \/ SelectDone

C14_NoOpenSession ==
  (pchunk > 0 /\ ctxDone /\ inProgress(store, "id")) => ENABLED PushProgress

\* C15: Write and Close after cancellation.  With zero or one successful
\* Write before the context is cancelled and no other call, the first call
\* after the cancellation, Write or Close, returns an error; on a multipart
\* writer that error is the cancellation error.
C15_AfterCancel ==
  (/\ ures.op \in {"Write", "Close"}
   /\ ures.nthAfterDone = 1
   /\ ures.okWritesBefore <= 1
   /\ ures.nth = ures.okWritesBefore + 1)
    => /\ ures.err # "nil"
       /\ sw.kind = "chunk" => ures.err = "ErrCanceled"

\* C16: self-cancelling write.  A Write made on a multipart writer that is
\* not closed, after the context was cancelled, returns the cancellation
\* error and issues no PutObjectPart; when the session is in progress
\* (before the call, or opened by it) the call aborts that session.
C16_SelfCancellingWrite ==
  (/\ sw.kind = "chunk"
   /\ ures.op = "Write"
   /\ ures.doneBefore
   /\ ~ures.closedBefore)
    => /\ ures.err = "ErrCanceled"
       /\ CallsOf(ures.issued, "PutObjectPart") = <<>>
       /\ (\/ ures.inProgBefore
           \/ \E i \in 1..Len(ures.issued) :
                ures.issued[i].op = "NewMultipartUpload" /\ ures.issued[i].ok)
            => \E i \in 1..Len(ures.issued) :
                 /\ ures.issued[i].op = "AbortMultipartUpload"
                 /\ ures.issued[i].id = "id"

\* C16 witness: a Write after the cancellation found the session in
\* progress and the store holds it as aborted.
C16_Witness ==
  /\ sw.kind = "chunk"
  /\ ures.op = "Write"
  /\ ures.doneBefore
  /\ ~ures.closedBefore
  /\ ures.inProgBefore
  /\ ures.okWritesBefore > 0
  /\ store.aborted = <<"id">>

\* C17: multipart session and part indices.  A multipart writer opens at
\* most one session, and has opened it exactly when a Write got past the
\* opening; a successful Write issues exactly one PutObjectPart, with the
\* next index; the parts the store accepted carry the indices 1, 2, 3, ...
\* in order; the recorded part list has length cnt - 1 and holds those
\* parts in index order.
C17_SessionAndParts ==
  (upc # "idle" /\ sw.kind = "chunk") =>
    /\ store.multipart <= 1
    /\ Len(SelectSeq(store.calls,
                     LAMBDA c : c.op = "NewMultipartUpload" /\ c.ok))
         = store.multipart
    /\ ~sw.firstWrite <=> store.multipart = 1
    /\ Len(sw.parts) = sw.cnt - 1
    /\ sw.parts = [i \in 1..(sw.cnt - 1) |-> i]
    /\ [i \in 1..Len(store.uploaded) |-> store.uploaded[i].part] = sw.parts
    /\ (ures.op = "Write" /\ ures.err = "nil")
         => LET puts == CallsOf(ures.issued, "PutObjectPart")
            IN /\ Len(puts) = 1
               /\ puts[1].ok
               /\ puts[1].arg = <<ures.okWritesBefore + 1>>

\* C17 witness: three parts were uploaded, a failed Write among the calls.
C17_Witness ==
  /\ sw.kind = "chunk"
  /\ sw.cnt = 4
  /\ Len(store.uploaded) = 3
  /\ store.failed > 0
  /\ ures.op = "Write"
  /\ ures.err = "nil"

\* C18: finalize on Close.  After the one Close of a multipart writer that
\* uploaded at least one part, at most one CompleteMultipartUpload is
\* issued, exactly one once the goroutine of Close has made its call, with
\* every recorded part in index order; what WaitOnFinished returns is the
\* outcome of that call; and a caller waiting in WaitOnFinished eventually
\* receives it.
Finalizing == sw.kind = "chunk" /\ ulog.closes = 1 /\ Len(sw.parts) >= 1

C18_Finalized ==
  Finalizing =>
    LET cs == CallsOf(store.calls, "CompleteMultipartUpload")
    IN /\ Len(cs) = (IF ugo = 0 THEN 1 ELSE 0)
       /\ \A i \in 1..Len(cs) :
            /\ cs[i].id = sw.uploadId
            /\ cs[i].arg = sw.parts
            /\ cs[i].arg = [j \in 1..Len(store.uploaded) |->
                              store.uploaded[j].part]
       /\ uwaited.made
            => /\ Len(cs) = 1
               /\ (uwaited.res.err = "nil") <=> cs[1].ok
               /\ cs[1].ok => uwaited.res.info =
                                [completed |-> TRUE, parts |-> sw.parts]

C18_FinalizeOnClose ==
  /\ []C18_Finalized
  /\ Finalizing ~> uwaited.made

\* C18 witness: WaitOnFinished returned the descriptor of an upload that
\* was completed from two parts.
C18_Witness ==
  /\ Finalizing
  /\ uwaited.made
  /\ uwaited.res.err = "nil"
  /\ store.completed = << <<1, 2>> >>

\* C19: completion signal written once.  Over any sequence of Write, Close
\* and Cancel calls on one upload writer, at most one value is ever written
\* or due to be written to the completion channel, and no sender is held
\* at a full channel.
C19_SignalOnce ==
  /\ usent + Len(usend) + ugo <= 1
  /\ upc # "blocked"

\* C20: Cancel.  Cancel on a multipart writer whose session is in progress
\* issues one call, the abort of that session, and leaves the writer
\* closed; every Write made after a Cancel returns ErrWriterClosed and
\* issues no object-store call.
C20_Cancel ==
  sw.kind = "chunk" =>
    /\ (ures.op = "Cancel" /\ ures.inProgBefore)
         => /\ sw.isClosed
            /\ Len(ures.issued) = 1
            /\ ures.issued[1].op = "AbortMultipartUpload"
            /\ ures.issued[1].id = "id"
    /\ (ures.op = "Write" /\ ulog.cancels >= 1)
         => /\ ures.err = "ErrWriterClosed"
            /\ ures.issued = <<>>

\* C20 witness: a Write after the Cancel that aborted the session in
\* progress.
C20_Witness ==
  /\ sw.kind = "chunk"
  /\ ures.op = "Write"
  /\ ulog.cancels = 1
  /\ store.aborted = <<"id">>
  /\ ures.err = "ErrWriterClosed"


\* chunk-mode reading of a stream whose header carries the writer's chunk
\* size: the records are read at their boundaries
ChunkReading ==
  /\ phase = "read"
  /\ stream.hasHdr
  /\ stream.h.cs = hdr.cs
  /\ hdr.cs > 0

\* the step fetches record k: the reader stood at the start of a record, the
\* records from there up to k are of full size, and the reader moved past
\* the start of k
Fetched(k) ==
  LET i == ItemAt(stream.body, dr.pos)
  IN /\ i > 0
     /\ i <= k
     /\ \A m \in i..(k - 1) :
          ItemLen(stream.body[m]) = hdr.cs + seqNumSize + tagSizeByte
     /\ dr'.pos > SumLen(stream.body, k - 1)

\* the value of the reader's counter when record k is fetched
ExpectedSeqNum(k) ==
  (dr.currSeqNum + k - ItemAt(stream.body, dr.pos)) % Uint32Mod

C22_ErrorsTerminal ==
  [][(/\ phase = "read"
      /\ dr.mode = "chunk"
      /\ rerr \in {"ErrAuth", "ErrInvalidSeqNum"})
       => ~(rres'.err \in {"nil", "EOF"} /\ rres'.n > 0)]_vars

\* C23: cross-object substitution.  After a record was replaced by the
\* record at the same position of an object encrypted under the same key
\* with another base IV: no Read reports io.EOF unless reading failed
\* before; as long as reading has not failed the delivered bytes are a
\* prefix of the plaintext; and once the reader has consumed the whole
\* stream reading has failed.
C23_ForeignRecordRejected ==
  (phase = "read" /\ tampered = "foreign")
    => /\ rres.err = "EOF" => rerr # "nil"
       /\ rerr = "nil" => IsPrefix(out, plain)
       /\ (rres.made /\ dr.pos = TotalLen(stream.body)) => rerr # "nil"

\* C23 witness: the second record of a stream was replaced by the other
\* object's second record; the first record's bytes were delivered and the
\* Read that fetched the foreign record returned an authentication error.
C23_Witness ==
  /\ phase = "read"
  /\ tampered = "foreign"
  /\ Len(stream.body) >= 2
  /\ stream.body[2] # sent.body[2]
  /\ rres.err = "ErrAuth"
  /\ rerr = "ErrAuth"
  /\ rres.outBefore = hdr.cs


\* the number of bytes the destination received
DestLen == TotalLen(Flatten(dest))

\* the chunks of the bytes offered fit the sequence-number counter
WithinCounter ==
  hdr.cs > 0 => CeilDiv(offered, hdr.cs) <= LAST_CHUNK_SEQ_NUM

\* C24: size accounting.  A Write of L >= 1 bytes on an open writer returns
\* n = L and a nil error; after Close the destination holds, for chunk size
\* C >= 1 and a payload of L >= 1 bytes, 70 + floor(L/C)*(C+4+16) bytes plus
\* (L mod C)+4+16 bytes when L mod C > 0, and for C = 0 it holds 70 + L + 16
\* bytes.
C24_SizeAccounting ==
  LET L == Len(plain)
      C == hdr.cs
  IN /\ (phase = "write" /\ wres.op = "Write" /\ wres.plen >= 1
           /\ nCloses = 0 /\ WithinCounter)
          => (wres.n = wres.plen /\ wres.err = "nil")
     /\ (phase = "write" /\ wres.op = "Close" /\ nCloses = 1 /\ ~wfail
           /\ L >= 1 /\ WithinCounter)
          => /\ wres.err = "nil"
             /\ DestLen =
                  IF C = 0 THEN headerSizeByte + L + tagSizeByte
                  ELSE headerSizeByte
                       + (L \div C) * (C + seqNumSize + tagSizeByte)
                       + (IF L % C > 0
                          THEN (L % C) + seqNumSize + tagSizeByte ELSE 0)

\* C24 witness: five bytes written to a chunk writer of chunk size 2, then
\* Close: two full records and a short one.
C24_Witness ==
  /\ phase = "write"
  /\ wres.op = "Close"
  /\ nCloses = 1
  /\ hdr.cs = 2
  /\ Len(plain) = 5
  /\ Len(dest) = 3
  /\ DestLen = 135

\* C25: write after Close.  In both modes a Write or a ReadFrom issued after
\* Close returns ErrWriterClosed with n = 0 and nothing reaches the
\* destination.
C25_WriteAfterClose ==
  [][(/\ phase = "write"
      /\ nCloses > 0
      /\ nCloses' = nCloses
      /\ phase' = "write")
       => /\ wres'.op \in {"Write", "ReadFrom"}
          /\ wres'.err = "ErrWriterClosed"
          /\ wres'.n = 0
          /\ dest' = dest
          /\ sealLog' = sealLog
          /\ ew' = ew]_vars

\* C25 witness: a Write of two bytes on a closed writer that holds data
\* returned ErrWriterClosed.
C25_Witness ==
  /\ phase = "write"
  /\ nCloses = 1
  /\ Len(plain) > 0
  /\ wres.op = "Write"
  /\ wres.plen = 2
  /\ wres.err = "ErrWriterClosed"

\* C26: Close without data.  Close on a writer to which no byte was written
\* returns nil, in whole mode and in chunk mode.
C26_CloseWithoutData ==
  (phase = "write" /\ wres.op = "Close" /\ nCloses = 1 /\ offered = 0)
    => wres.err = "nil"

\* C27, as stated: in chunk mode, when the payload length is a positive
\* exact multiple of the chunk size, the buffer is empty at Close time and
\* Close returns ErrNoLastChunk and emits no final record.
C27_NoLastChunkOnMultiple ==
  (/\ phase = "write"
   /\ hdr.cs > 0
   /\ ~wfail
   /\ Len(plain) > 0
   /\ Len(plain) % hdr.cs = 0
   /\ WithinCounter)
    => /\ nCloses = 0 => ew.offset = 0
       /\ (nCloses = 1 /\ wres.op = "Close")
            => /\ wres.err = "ErrNoLastChunk"
               /\ \A i \in 1..Len(sent.body) :
                    sent.body[i].seq # LAST_CHUNK_SEQ_NUM

\* C27, amended: in chunk mode, when the payload length is a positive exact
\* multiple of the chunk size, the buffer holds the last full chunk at Close
\* time, and Close returns nil and emits it as the final record, which
\* carries the sentinel; Close returns ErrNoLastChunk exactly when no byte
\* was written.
C27_LastChunkKept ==
  (phase = "write" /\ hdr.cs > 0 /\ ~wfail /\ WithinCounter)
    => /\ (nCloses = 0 /\ Len(plain) > 0 /\ Len(plain) % hdr.cs = 0)
            => ew.offset = hdr.cs
       /\ (nCloses = 1 /\ wres.op = "Close")
            => /\ wres.err = "ErrNoLastChunk" <=> Len(plain) = 0
               /\ (Len(plain) > 0 /\ Len(plain) % hdr.cs = 0)
                    => LET b == sent.body
                       IN /\ wres.err = "nil"
                          /\ Len(b) = Len(plain) \div hdr.cs
                          /\ b[Len(b)].seq = LAST_CHUNK_SEQ_NUM
                          /\ Len(b[Len(b)].box.pt) = hdr.cs

\* C27 witness: four bytes written to a chunk writer of chunk size 2, then
\* Close, which returned nil: the destination holds two records.
C27_Witness ==
  /\ phase = "write"
  /\ hdr.cs = 2
  /\ ~wfail
  /\ Len(plain) = 4
  /\ nCloses = 1
  /\ wres.op = "Close"
  /\ wres.err = "nil"
  /\ Len(sent.body) = 2

\* C28: Close after Close.  A Close on a closed writer, either mode, returns
\* a closed-writer error, writes nothing to the destination and does not
\* close the destination again.
C28_CloseAfterClose ==
  [][(phase = "write" /\ nCloses >= 1 /\ nCloses' = nCloses + 1)
       => /\ wres'.err = "ErrWriterClosed"
          /\ dest' = dest
          /\ destCloses' = destCloses]_vars

\* the number of headers among the items
RECURSIVE Headers(_)
Headers(items) ==
  IF items = <<>> THEN 0
  ELSE (IF Head(items).t = "hdr" THEN 1 ELSE 0) + Headers(Tail(items))

\* C29: header first and once.  Whatever Writes were made on the writer,
\* closed once at most, the bytes the destination received begin with the
\* header, hold it once, and in chunk mode the header came in the
\* destination Write of the first record.
C29_HeaderFirstOnce ==
  (phase = "write" /\ dest # <<>> /\ nCloses <= 1)
    => /\ Head(Flatten(dest)).t = "hdr"
       /\ Headers(Flatten(dest)) = 1
       /\ hdr.cs > 0 => (Len(dest[1]) = 2 /\ dest[1][2].t = "rec")

\* C30: the whole-mode reader decrypts once.  On a valid whole-mode object,
\* a Read made after the one that read and opened the source returns no
\* error and delivers the bytes that follow those already delivered.
C30_DecryptsOnce ==
  [][(/\ ReadingValid
      /\ dr.mode = "whole"
      /\ rres.made
      /\ rerr = "nil")
       => /\ rres'.err \in {"nil", "EOF"}
          /\ out' = SubSeq(plain, 1, Min(Len(plain), Len(out) + rres'.plen))]_vars


\* C31: Filename needs the header.  Filename() returns ErrNoFirstRead as
\* long as no Read or WriteTo was made and after a Read or WriteTo that
\* found no header in the source; after any Read or WriteTo that read the
\* header, a zero-length Read included, it returns the header's filename
\* without its trailing NUL bytes.
C31_FilenameNeedsHeader ==
  /\ ~rres.made => dmrFilename(dr) = [name |-> <<>>, err |-> "ErrNoFirstRead"]
  /\ (phase = "read" /\ rres.made /\ ~stream.hasHdr)
       => dmrFilename(dr) = [name |-> <<>>, err |-> "ErrNoFirstRead"]
  /\ (phase = "read" /\ rres.made /\ stream.hasHdr)
       => dmrFilename(dr) = [name |-> TrimRightZeros(stream.h.fn),
                             err |-> "nil"]

\* C31 witness: one zero-length Read was made on a stream that holds data;
\* nothing was delivered and Filename() returns the name.
C31_Witness ==
  /\ phase = "read"
  /\ Len(plain) > 0
  /\ rres.made
  /\ rres.plen = 0
  /\ rres.n = 0
  /\ rres.err = "nil"
  /\ out = <<>>
  /\ dmrFilename(dr).name = <<7, 8>>

\* C32: header parsed once.  Over a source that starts with a header, after
\* any sequence of Read and WriteTo calls the reader has taken the 70 header
\* bytes from the source once, the inner reader is the chunk reader if and
\* only if the header's chunk size is positive, and the header it holds is
\* the one read.
C32_HeaderParsedOnce ==
  (phase = "read" /\ stream.hasHdr)
    => /\ dr.hdrRead = IF rres.made THEN headerSizeByte ELSE 0
       /\ rres.made
            => /\ ~dr.firstRead
               /\ dr.mode = IF stream.h.cs > 0 THEN "chunk" ELSE "whole"
               /\ dr.header = stream.h

\* C32 witness: Reads delivered a part of a chunk-mode object and a WriteTo
\* delivered the rest.
C32_Witness ==
  /\ phase = "read"
  /\ hdr.cs > 0
  /\ rres.made
  /\ rres.plen = 0
  /\ rres.outBefore > 0
  /\ rres.n > 0
  /\ rres.err = "nil"
  /\ out = plain
  /\ dr.hdrRead = headerSizeByte


\* C33: filename length.  PushObject called with a filename longer than 50
\* bytes returns ErrFilenameTooLong before any byte of the source is read,
\* any goroutine is started and any object-store call is made; with a
\* filename of at most 50 bytes without trailing NUL, the header it makes
\* gives the filename back unchanged.
C33_FilenameLength ==
  ppc # "idle" =>
    /\ Len(pname) > filenameHeaderSize
         => /\ ppc = "returned"
            /\ pret.err = "ErrFilenameTooLong"
            /\ psrc.read = 0
            /\ tpc = "none"
            /\ store.calls = <<>>
    /\ (Len(pname) <= filenameHeaderSize /\ ~wrongChunkSize(pchunk))
         => Filename(ph) = pname

\* C34: chunk size validation.  PushObject with a chunk size that is
\* neither 0 nor within [5 MiB, 5 GiB] has returned ErrWrongChunkSize with no
\* byte read from the source, no goroutine started and no object-store call
\* made; with chunk size 0 or a size within the range it never returns
\* ErrWrongChunkSize.  The test PushObject makes accepts 0 and both ends of
\* the range and rejects the sizes next to them.
C34_ChunkSizeValidation ==
  ppc # "idle" =>
    /\ \A c \in {0, 5, 6, 5 * 1024 - 1, 5 * 1024} : ~wrongChunkSize(c)
    /\ \A c \in {1, 4, 5 * 1024 + 1, 5 * 1024 + 2} : wrongChunkSize(c)
    /\ IF pchunk = 0 \/ (5 <= pchunk /\ pchunk <= 5 * 1024)
       THEN pret.err # "ErrWrongChunkSize"
       ELSE /\ ppc = "returned"
            /\ pret = [info |-> NoInfo, err |-> "ErrWrongChunkSize"]
            /\ psrc.read = 0
            /\ tpc = "none"
            /\ cpc = "none"
            /\ store.calls = <<>>

\* C34 witness: a chunk size just below the lower threshold was rejected.
C34_Witness ==
  /\ ppc = "returned"
  /\ pchunk = minChunkSize - 1
  /\ pret.err = "ErrWrongChunkSize"
  /\ store.calls = <<>>


\* the entries of a listing that are objects, in order
ListedObjects(log) == SelectSeq(log, LAMBDA ob : ob.err = "nil")

\* the errors of the entries of a listing, in order
ListedErrors(log) == SelectSeq(log, LAMBDA ob : ob.err # "nil")

\* C35: ListFiles error propagation.  When ListFiles has returned after an
\* entry carrying the context's cancellation error, it returned no objects
\* and that error; otherwise it returned at the end of the listing, with
\* every listed object in order and, as its error, the first error an entry
\* carried (nil when none did).
C35_ListFilesErrors ==
  lf.pc = "returned" =>
    IF \E i \in 1..Len(lf.log) : lf.log[i].err = "canceled"
    THEN lf.ret = [objects |-> <<>>, err |-> "canceled"]
    ELSE /\ lf.ret.objects = ListedObjects(lf.log)
         /\ lf.ret.err = IF ListedErrors(lf.log) = <<>> THEN "nil"
                         ELSE ListedErrors(lf.log)[1].err


\* C36: header immutability.  After any number of seals the header held by
\* the writer is the header it was made with, and after any number of Reads
\* the header held by the reader is the one it read from the stream; the
\* nonce of every seal is the header's IV with the chunk's sequence number
\* xor-ed into its last four bytes, whatever was sealed before.
C36_HeaderImmutable ==
  /\ ew.header = hdr
  /\ \A i \in 1..Len(sealLog) :
       sealLog[i].nonce = [hi |-> hdr.iv.hi,
                           lo |-> Xor(hdr.iv.lo, sealLog[i].seq)]
  /\ (phase = "read" /\ ~dr.firstRead) => dr.header = hdr

\* C36 witness: three chunks, the final one included, were sealed and read
\* back.
C36_Witness ==
  /\ hdr.cs > 0
  /\ Len(sealLog) >= 3
  /\ sealLog[Len(sealLog)].final
  /\ phase = "read"
  /\ rerr = "nil"
  /\ Len(out) >= 3
  /\ out = plain


\* the buffer of the chunk writer: the offset stays within the chunk size,
\* and a Write of at least one byte that returned no error leaves at least
\* one byte in the buffer
BufferKept ==
  (phase = "write" /\ hdr.cs > 0)
    => /\ 0 <= ew.offset
       /\ ew.offset <= hdr.cs
       /\ (wres.op = "Write" /\ wres.plen >= 1 /\ wres.err = "nil")
            => ew.offset >= 1

\* C37: chunk writer buffer invariant.  In every state of the chunk writer
\* 0 <= offset <= chunk size, after a Write of at least one byte that
\* returned no error offset >= 1, and a Close that returned ErrNoLastChunk
\* was made on a writer no Write had given a byte to.
C37_BufferInvariant ==
  /\ BufferKept
  /\ (phase = "write" /\ hdr.cs > 0 /\ wres.op = "Close"
        /\ wres.err = "ErrNoLastChunk")
       => Len(plain) = 0


\* PushObject returned a nil error and the descriptor of a completed upload
\* made in chunk mode
PushedInChunks ==
  /\ ppc = "returned"
  /\ pchunk > 0
  /\ pret.err = "nil"
  /\ pret.info.completed

\* C38: codec-to-upload refinement.  After a successful chunk-mode
\* PushObject the uploaded parts are numbered 1, 2, ... in order, part 1 is
\* the header followed by the first record, every later part is one record,
\* the object completed in the store is made of these parts in index order,
\* and their concatenation is the stream the codec produces for the bytes
\* read from the source.
C38_CodecToUpload ==
  PushedInChunks =>
    LET up == store.uploaded
        n == Len(up)
        bytes == [i \in 1..psrc.read |-> i]
    IN /\ n >= 1
       /\ \A i \in 1..n : up[i].part = i
       /\ Len(up[1].data) = 2
       /\ up[1].data[1] = HdrItem(ph)
       /\ up[1].data[2].t = "rec"
       /\ \A i \in 2..n : Len(up[i].data) = 1 /\ up[i].data[1].t = "rec"
       /\ store.completed = <<[i \in 1..n |-> i]>>
       /\ pret.info.parts = [i \in 1..n |-> i]
       /\ StreamOf(Flatten([i \in 1..n |-> up[i].data]))
            = EncryptChunks(ph, bytes)


\* the i-th call the store received was made on a session that a call
\* before it had opened and no call before it had aborted or completed
OnLiveSession(calls, i) ==
  /\ calls[i].id # ""
  /\ \E j \in 1..(i - 1) :
       calls[j].op = "NewMultipartUpload" /\ calls[j].ok
  /\ \A j \in 1..(i - 1) :
       /\ calls[j].op # "AbortMultipartUpload"
       /\ ~(calls[j].op = "CompleteMultipartUpload" /\ calls[j].ok)

\* C39: abort only on a live session.  Every AbortMultipartUpload the store
\* received from PushObject names a session that was opened, was not yet
\* completed, and had not been aborted before: never an empty upload id,
\* at most one abort.
C39_AbortOnLiveSession ==
  \A i \in 1..Len(store.calls) :
    store.calls[i].op = "AbortMultipartUpload"
      => OnLiveSession(store.calls, i)


\* C40: no stuck execution path.  Each goroutine PushObject started can
\* take its next step in every state it has not finished in: the copying
\* goroutine can copy while it runs and can hand over its result once it
\* waits to send it, and the completing goroutine started by the upload
\* writer's Close can call the store and send the outcome.
C40_NoStuckPath ==
  /\ tpc = "run" => ENABLED (CopyChunk \/ CopyWhole)
  /\ tpc = "send" => ENABLED SelectCopied
  /\ cpc = "run" => ENABLED Complete

====
